---- MODULE Spec2Model ----
(***************************************************************************)
(* A model of the restaurant bot's ingestion pipeline (crawler.py), its    *)
(* store (database.py) and its matching engine (database.py), with the     *)
(* command handlers of bot.py that drive them.                             *)
(*                                                                         *)
(* Coroutines are modelled at the granularity of asyncio: one action runs  *)
(* a coroutine from one await to the next.  The Google Maps client is      *)
(* synchronous, so a provider call never yields; asyncio.sleep, the LLM    *)
(* call and every Motor (MongoDB) call do.                                 *)
(***************************************************************************)
EXTENDS Integers, Sequences, FiniteSets, TLC

(***************************************************************************)
(* Bounds of the model.                                                    *)
(***************************************************************************)
NumPlaces == 2      \* place ids the provider knows: 1..NumPlaces
MaxPages == 2       \* length of the provider's chain of result pages
MaxCap == 2         \* largest max_results a crawl is started with
MaxAdds == 1        \* number of /admin add commands issued
MaxCalls == 2       \* number of direct calls of add_or_update_restaurant

PlaceIds == 1..NumPlaces
Crawls == {1, 2}
Removers == {1, 2}
AddOwner == 0
Owners == Crawls \cup {AddOwner}

None == 0           \* Python's None for a page token, a timestamp, a count

VARIABLES
    store,      \* the restaurants collection: a set of documents
    clock,      \* the number of datetime.utcnow() readings so far
    crawl,      \* crawl[c]: the frame of one crawl_area invocation
    task,       \* task[o][p]: the _process_place coroutine of owner o for id p
    adds,       \* number of /admin add commands issued so far
    place,      \* place[p]: the detail record the provider serves for id p
    remover     \* remover[r]: the frame of one delete_command invocation

VARIABLES
    hPc,            \* "idle", "details" (before the enricher normalises),
                    \* "input" (before the call) or "done" (after it)
    weekday_text,   \* opening_hours.weekday_text of the provider's details
    hours_arg,      \* the opening_hours passed to is_open_at_time
    dt_arg,         \* the target_dt passed to is_open_at_time
    is_open         \* what is_open_at_time returned

VARIABLES
    fPc,                    \* "idle", "input", "found" or "replied"
    filters,                \* the filters passed to find_restaurants
    query_time,             \* the query_time passed to find_restaurants
    count,                  \* the count passed to find_restaurants
    potential_restaurants,  \* the documents the cursor yielded, in its order
    selected_restaurants,   \* what find_restaurants returned
    nearby_reply            \* what find_nearby sent to the user

VARIABLES
    call        \* the frame of a direct call of add_or_update_restaurant

VARIABLES
    location_aliases,   \* the location_aliases collection: a set of documents
    alias_unique,       \* the unique index on alias is in force
    alias_call,         \* the last add_location_alias or delete_location_alias
    alias_get           \* the frame of a get_location_alias invocation

crawlVars == <<store, clock, crawl, task, adds, place, remover>>

hoursVars == <<hPc, weekday_text, hours_arg, dt_arg, is_open>>

findVars == <<fPc, filters, query_time, count, potential_restaurants,
              selected_restaurants, nearby_reply>>

callVars == <<call>>

aliasVars == <<location_aliases, alias_unique, alias_call, alias_get>>

vars == <<crawlVars, hoursVars, findVars, callVars, aliasVars>>

(***************************************************************************)
(* Store (database.py).  A document is a record; _id is the row id the     *)
(* server assigns on insert.                                               *)
(***************************************************************************)
DocsOf(s, pid) == {d \in s : d.google_place_id = pid}

StoreIds(s) == {d.google_place_id : d \in s}

FreshOid(s) == CHOOSE n \in 1..(Cardinality(s) + 1) : \A d \in s : d._id # n

\* $set: the fields of new replace those of old, every other field of old stays.
SetFields(old, new) ==
    [f \in (DOMAIN old) \cup (DOMAIN new) |->
        IF f \in DOMAIN new THEN new[f] ELSE old[f]]

\* A faulty update_one that always inserts.
InsertAlways(s, pid, data) == s \cup {SetFields([_id |-> FreshOid(s)], data)}

\* A faulty delete_one that deletes nothing and reports one deletion.
DeleteNothing(s, pid) == [store |-> s, deleted_count |-> 1]

\* A faulty upsert that removes the stored document instead of updating it.
RemoveWhenStored(s, pid, data) ==
    IF DocsOf(s, pid) = {}
    THEN s \cup {SetFields([_id |-> FreshOid(s)], data)}
    ELSE s \ DocsOf(s, pid)

\* collection.update_one({'google_place_id': pid}, {'$set': data}, upsert=True)
UpdateOneUpsert(s, pid, data) ==
    IF DocsOf(s, pid) = {}
    THEN s \cup {SetFields([_id |-> FreshOid(s)], data)}
    ELSE LET old == CHOOSE d \in DocsOf(s, pid) :
                        \A e \in DocsOf(s, pid) : d._id <= e._id
         IN  (s \ {old}) \cup {SetFields(old, data)}

\* collection.delete_one({'google_place_id': pid}): the store and deleted_count
DeleteOne(s, pid) ==
    IF DocsOf(s, pid) = {}
    THEN [store |-> s, deleted_count |-> 0]
    ELSE LET old == CHOOSE d \in DocsOf(s, pid) :
                        \A e \in DocsOf(s, pid) : d._id <= e._id
         IN  [store |-> s \ {old}, deleted_count |-> 1]

\* A faulty existence query that finds nothing.
NoExistingPlaceIds(s, ids) == {}

\* collection.find({'google_place_id': {'$in': ids}}, {'google_place_id': 1})
ExistingPlaceIds(s, ids) == {d.google_place_id : d \in {e \in s : e.google_place_id \in ids}}

(***************************************************************************)
(* _process_place (crawler.py): one enrichment task.                       *)
(***************************************************************************)
\* The part of a detail record that final_doc is built from: the place's
\* geometry.location and whether the record carries a photo.
Longitudes == {113, 114}

Latitudes == {22, 23}

PlaceData == [lng : Longitudes, lat : Latitudes, photo : BOOLEAN]

NoData == [lng |-> 0, lat |-> 0, photo |-> FALSE]

DefaultData == [lng |-> 113, lat |-> 23, photo |-> FALSE]

\* fetches: the detail-fetch requests the provider received from the task.
NoTask ==
    [pc |-> "none", status |-> "", details |-> "none", data |-> NoData,
     classified |-> "", stamp |-> None, fetches |-> 0]

\* Outcomes of gmaps.place(...)['result']: raises, a full detail record, or a
\* detail record without a key the enricher indexes (place_id, name, geometry).
DetailOutcomes == {"error", "full", "partial"}

\* Outcomes of _structure_with_llm: the call or json.loads raises (caught:
\* {"is_restaurant": False}), an object with is_restaurant true or false, or
\* valid JSON that is not an object (a list, a string, a number).
LLMOutcomes == {"failure", "negative", "positive", "nonobject"}

\* Outcomes of the update_one sent to the server.
WriteOutcomes == {"ok", "error"}

\* A faulty final_doc with latitude before longitude.
LatitudeFirst(pid, place_details) ==
    [google_place_id |-> pid,
     location |-> [type |-> "Point",
                   coordinates |-> <<place_details.lat, place_details.lng>>]]

\* Lines 124-134: final_doc, as far as the store's fields are modelled.
\* coordinates[0] of the source is the first element here.
FinalDoc(pid, place_details) ==
    LET final_doc ==
            [google_place_id |-> pid,
             location |-> [type |-> "Point",
                           coordinates |-> <<place_details.lng, place_details.lat>>]]
    IN  IF place_details.photo
        THEN SetFields(final_doc, [image_url |-> "photo_url"])
        ELSE final_doc

\* A faulty test that takes every answer of the classifier for a restaurant.
AlwaysRestaurant(r) == TRUE

\* structured_data.get("is_restaurant") is truthy
IsRestaurant(r) == r = "positive"

\* A faulty key check that rejects every record.
NoKey(data) == FALSE

\* add_or_update_restaurant, up to its await: the key check and the timestamp.
HasKey(data) == "google_place_id" \in DOMAIN data

\* A faulty first block that asks the provider again after a failed fetch.
FetchedWithRetry(r, place_details) ==
    IF r = "error"
    THEN [NoTask EXCEPT !.pc = "done", !.status = "api_error", !.fetches = 2]
    ELSE IF r = "full"
    THEN [NoTask EXCEPT !.pc = "llm", !.details = r, !.data = place_details,
                        !.fetches = 1]
    ELSE [NoTask EXCEPT !.pc = "llm", !.details = r, !.fetches = 1]

\* A faulty first block that goes on to the classifier after a failed fetch.
FetchedAnyway(r, place_details) ==
    IF r = "full"
    THEN [NoTask EXCEPT !.pc = "llm", !.details = r, !.data = place_details]
    ELSE IF r = "partial" THEN [NoTask EXCEPT !.pc = "llm", !.details = r]
    ELSE [NoTask EXCEPT !.pc = "llm"]

\* Lines 111-120: the first block of _process_place, up to the await of the
\* classifier.  The detail fetch is a synchronous call: the block never yields.
Fetched(r, place_details) ==
    IF r = "error"
    THEN [NoTask EXCEPT !.pc = "done", !.status = "api_error", !.fetches = 1]
    ELSE IF r = "full"
    THEN [NoTask EXCEPT !.pc = "llm", !.details = r, !.data = place_details,
                        !.fetches = 1]
    ELSE [NoTask EXCEPT !.pc = "llm", !.details = r, !.fetches = 1]

\* A return statement of _process_place.  A crawl's gather keeps the result;
\* add_command answers the user at once and its frame is gone.
Returned(o, t, st) ==
    IF o = AddOwner THEN NoTask ELSE [t EXCEPT !.pc = "done", !.status = st]

\* An exception leaves _process_place.  add_command catches it and answers.
Raised(o, t) ==
    IF o = AddOwner THEN NoTask ELSE [t EXCEPT !.pc = "raised"]

\* The classifier has answered: lines 120-152 up to the await of update_one.
TaskClassified(o, p) ==
    /\ task[o][p].pc = "llm"
    /\ \E r \in LLMOutcomes :
        CASE r = "nonobject" ->
                \* structured_data.get on a list: AttributeError, not caught
                /\ task' = [task EXCEPT ![o][p] = Raised(o, @)]
                /\ UNCHANGED clock
          [] r # "nonobject" /\ ~IsRestaurant(r) ->
                /\ task' = [task EXCEPT ![o][p] = Returned(o, @, "skipped")]
                /\ UNCHANGED clock
          [] IsRestaurant(r) /\ task[o][p].details = "partial" ->
                \* place_details['geometry']: KeyError, not caught
                /\ task' = [task EXCEPT ![o][p] = Raised(o, @)]
                /\ UNCHANGED clock
          [] IsRestaurant(r) /\ task[o][p].details = "full" ->
                IF HasKey(FinalDoc(p, task[o][p].data))
                THEN /\ clock' = clock + 1
                     /\ task' = [task EXCEPT ![o][p] =
                                    [@ EXCEPT !.pc = "db", !.classified = r,
                                              !.stamp = clock + 1]]
                ELSE /\ task' = [task EXCEPT ![o][p] = Returned(o, @, "db_error")]
                     /\ UNCHANGED clock
    /\ UNCHANGED <<store, crawl, adds, place, remover>>
    /\ UNCHANGED <<hoursVars, findVars, callVars, aliasVars>>

\* The server applies the update_one (or fails) and the task returns.
TaskWritten(o, p) ==
    /\ task[o][p].pc = "db"
    /\ \E r \in WriteOutcomes :
        IF r = "ok"
        THEN /\ store' = UpdateOneUpsert(store, p,
                            SetFields(FinalDoc(p, task[o][p].data),
                                      [last_updated |-> task[o][p].stamp]))
             /\ task' = [task EXCEPT ![o][p] = Returned(o, @, "success")]
        ELSE /\ store' = store
             /\ task' = [task EXCEPT ![o][p] = Returned(o, @, "db_error")]
    /\ UNCHANGED <<clock, crawl, adds, place, remover>>
    /\ UNCHANGED <<hoursVars, findVars, callVars, aliasVars>>

(***************************************************************************)
(* crawl_area (crawler.py): discovery, dedup, fan-out, summary.            *)
(***************************************************************************)
ZeroSummary ==
    [total_found |-> 0, already_exists |-> 0, to_process |-> 0,
     restaurants_added_or_updated |-> 0, non_restaurants_skipped |-> 0,
     errors |-> 0, pages_crawled |-> 0]

IdleCrawl ==
    [pc |-> "idle", max_results |-> 0, start_page |-> 1, end_page |-> -1,
     force_update |-> FALSE, all_place_ids |-> {}, next_page_token |-> None,
     current_page |-> 1, places_result |-> {}, place_ids_to_process |-> {},
     num_existing |-> 0, summary |-> ZeroSummary,
     \* what the provider saw of this invocation: the nearby-search requests it
     \* answered, and whether one of them failed
     pages_fetched |-> 0, page_error |-> FALSE,
     \* the nearby-search requests it received, in order: the page asked for,
     \* the page_token carried (None: location and radius), the time slept since
     \* the token was received, and the next_page_token of its answer
     requests |-> <<>>]

\* The parameters crawl_command lets through (bot.py, the parameter check).
ValidParams(m, s, e) == ~(s < 1 \/ (e # -1 /\ e < s) \/ m < 0)

CrawlParams(caps, starts, ends) ==
    {q \in [max_results : caps, start_page : starts, end_page : ends,
            force_update : BOOLEAN] :
        ValidParams(q.max_results, q.start_page, q.end_page)}

\* Every parameter combination within the bounds.
FullParams == CrawlParams(0..MaxCap, 1..MaxPages, {-1} \cup (1..MaxPages))

\* The default window (all pages) without a cap, forced or not.
WindowlessParams == CrawlParams({0}, {1}, {-1})

\* A nearby-search response for a provider that knows the places `known`: the
\* ids of its results and whether it carries a next_page_token.  The
\* provider's chain ends at page MaxPages.
PageResponses(page, known) ==
    [ids : SUBSET known, more : IF page < MaxPages THEN BOOLEAN ELSE {FALSE}]

\* A faulty truncation that keeps the whole page.
KeepWholePage(page_ids, all_ids, max_results) == {page_ids}

\* Lines 215-219: the page's ids, cut to the remaining slots when a cap is set.
\* list(set)[:n] keeps n elements in the set's iteration order: any n of them.
TruncatedPage(page_ids, all_ids, max_results) ==
    IF max_results > 0
    THEN LET remaining_slots == max_results - Cardinality(all_ids)
         IN  IF remaining_slots <= 0 THEN {}
             ELSE IF Cardinality(page_ids) <= remaining_slots THEN {page_ids}
             ELSE {k \in SUBSET page_ids : Cardinality(k) = remaining_slots}
    ELSE {page_ids}

\* asyncio.sleep(2)
SettleDelay == 2

\* Line 192: the skip path sleeps before each of its requests.
SleepSkip(f) == SettleDelay

\* A faulty collecting path that never sleeps.
NoSleep(f) == 0

\* Line 206: the collecting path sleeps when it holds a token.
SleepFetch(f) == IF f.next_page_token # None THEN SettleDelay ELSE 0

\* Lines 181-186 and 193, 207: places_nearby is called with the token when one
\* is held, else with location and radius, after the sleep.
Requested(f, waited) ==
    [f EXCEPT !.requests = Append(@,
        [page |-> f.current_page, page_token |-> f.next_page_token,
         waited |-> waited, next_page_token |-> None])]

\* The provider's answer to the last request carries a next_page_token.
Answered(f, token) ==
    [f EXCEPT !.requests[Len(f.requests)].next_page_token = token]

\* A faulty summary that reports every id found as to process.
ReturnFoundAsToProcess(f, succeeded, skipped, errs) ==
    [f EXCEPT !.pc = "done", !.summary =
        [total_found |-> Cardinality(f.all_place_ids),
         already_exists |-> f.num_existing,
         to_process |-> Cardinality(f.all_place_ids),
         restaurants_added_or_updated |-> succeeded,
         non_restaurants_skipped |-> skipped,
         errors |-> errs,
         pages_crawled |-> f.current_page - 1]]

\* A return statement of crawl_area.
Return(f, succeeded, skipped, errs) ==
    [f EXCEPT !.pc = "done", !.summary =
        [total_found |-> Cardinality(f.all_place_ids),
         already_exists |-> f.num_existing,
         to_process |-> Cardinality(f.place_ids_to_process),
         restaurants_added_or_updated |-> succeeded,
         non_restaurants_skipped |-> skipped,
         errors |-> errs,
         pages_crawled |-> f.current_page - 1]]

\* A faulty end of the loop that gives up what was accumulated.
DropAccumulated(f) == Return([f EXCEPT !.all_place_ids = {}], 0, 0, 0)

\* Lines 226-236: the loop has ended; up to the existence query's await, the
\* early return, or (force_update) the fan-out.
AfterLoop(f) ==
    IF f.all_place_ids = {} THEN Return(f, 0, 0, 0)
    ELSE IF f.force_update
         THEN [f EXCEPT !.pc = "gather", !.place_ids_to_process = f.all_place_ids]
         ELSE [f EXCEPT !.pc = "exists_query"]

\* A faulty loop that goes on requesting with the cap reached.
LoopTopNoCap(f) ==
    IF f.current_page < f.start_page THEN [f EXCEPT !.pc = "sleep_skip"]
    ELSE IF f.end_page # -1 /\ f.current_page > f.end_page THEN AfterLoop(f)
    ELSE [f EXCEPT !.pc = "fetch"]

\* A faulty loop that collects the pages before start_page.
LoopTopNoSkip(f) ==
    IF f.end_page # -1 /\ f.current_page > f.end_page THEN AfterLoop(f)
    ELSE IF f.max_results > 0 /\ Cardinality(f.all_place_ids) >= f.max_results
         THEN AfterLoop(f)
    ELSE [f EXCEPT !.pc = "fetch"]

\* A faulty loop that goes on requesting past end_page.
LoopTopNoEnd(f) ==
    IF f.current_page < f.start_page THEN [f EXCEPT !.pc = "sleep_skip"]
    ELSE IF f.max_results > 0 /\ Cardinality(f.all_place_ids) >= f.max_results
         THEN AfterLoop(f)
    ELSE [f EXCEPT !.pc = "fetch"]

\* Lines 188-204: the top of the loop, up to the next await or provider call.
LoopTop(f) ==
    IF f.current_page < f.start_page THEN [f EXCEPT !.pc = "sleep_skip"]
    ELSE IF f.end_page # -1 /\ f.current_page > f.end_page THEN AfterLoop(f)
    ELSE IF f.max_results > 0 /\ Cardinality(f.all_place_ids) >= f.max_results
         THEN AfterLoop(f)
    ELSE [f EXCEPT !.pc = "fetch"]

\* A faulty fan-out that starts a task for every id discovered.
StepLaunchAll(c, f) ==
    /\ crawl' = [crawl EXCEPT ![c] = f]
    /\ IF f.pc = "gather"
       THEN \E r \in [f.all_place_ids -> DetailOutcomes] :
                task' = [task EXCEPT ![c] =
                    [p \in PlaceIds |-> IF p \in f.all_place_ids
                                        THEN Fetched(r[p], place[p]) ELSE NoTask]]
       ELSE task' = task

\* The frame c moves to f.  At the gather (lines 260-261) one _process_place
\* coroutine per id to process is started; the event loop runs the first block
\* of each, one after the other, before any other coroutine resumes.
Step(c, f) ==
    /\ crawl' = [crawl EXCEPT ![c] = f]
    /\ IF f.pc = "gather"
       THEN \E r \in [f.place_ids_to_process -> DetailOutcomes] :
                task' = [task EXCEPT ![c] =
                    [p \in PlaceIds |-> IF p \in f.place_ids_to_process
                                        THEN Fetched(r[p], place[p]) ELSE NoTask]]
       ELSE task' = task

\* crawl_command calls crawl_area.
StartCrawl(c, params) ==
    /\ crawl[c].pc = "idle"
    /\ \E q \in params :
        Step(c, LoopTop([IdleCrawl EXCEPT !.max_results = q.max_results,
                                          !.start_page = q.start_page,
                                          !.end_page = q.end_page,
                                          !.force_update = q.force_update]))
    /\ UNCHANGED <<store, clock, adds, place, remover>>
    /\ UNCHANGED <<hoursVars, findVars, callVars, aliasVars>>

\* A faulty skip that never advances current_page: before start_page the same
\* request is repeated for as long as the provider answers.
SkipPageStuck(c, known) ==
    /\ crawl[c].pc = "sleep_skip"
    /\ LET q == Requested(crawl[c], SleepSkip(crawl[c]))
       IN  \/ \E r \in PageResponses(crawl[c].current_page, known) :
                Step(c, LoopTop([q EXCEPT !.places_result = r.ids,
                                          !.pages_fetched = @ + 1]))
           \/ Step(c, AfterLoop([q EXCEPT !.page_error = TRUE]))
    /\ UNCHANGED <<store, clock, adds, place, remover>>
    /\ UNCHANGED <<hoursVars, findVars, callVars, aliasVars>>

\* Lines 190-201: a page before start_page is requested and discarded.
SkipPage(c, known) ==
    /\ crawl[c].pc = "sleep_skip"
    /\ LET q == Requested(crawl[c], SleepSkip(crawl[c]))
       IN  \/ \E r \in PageResponses(crawl[c].current_page, known) :
                IF r.more
                THEN Step(c, LoopTop([Answered(q, q.current_page + 1) EXCEPT
                            !.places_result = r.ids,
                            !.next_page_token = q.current_page + 1,
                            !.current_page = q.current_page + 1,
                            !.pages_fetched = @ + 1]))
                ELSE Step(c, AfterLoop([q EXCEPT
                            !.places_result = r.ids, !.next_page_token = None,
                            !.pages_fetched = @ + 1]))
           \/ \* places_nearby raises
              Step(c, AfterLoop([q EXCEPT !.page_error = TRUE]))
    /\ UNCHANGED <<store, clock, adds, place, remover>>
    /\ UNCHANGED <<hoursVars, findVars, callVars, aliasVars>>

\* Lines 204-224: a page of the window is requested and its ids collected.
FetchPage(c, known) ==
    /\ crawl[c].pc = "fetch"
    /\ LET q == Requested(crawl[c], SleepFetch(crawl[c]))
       IN  \/ \E r \in PageResponses(crawl[c].current_page, known) :
              \E kept \in TruncatedPage(r.ids, crawl[c].all_place_ids,
                                        crawl[c].max_results) :
                LET f == [q EXCEPT
                            !.places_result = r.ids,
                            !.all_place_ids = q.all_place_ids \cup kept,
                            !.pages_fetched = @ + 1]
                IN  IF r.more
                    THEN Step(c, LoopTop([Answered(f, f.current_page + 1) EXCEPT
                                !.next_page_token = f.current_page + 1,
                                !.current_page = f.current_page + 1]))
                    ELSE Step(c, AfterLoop([f EXCEPT !.next_page_token = None]))
           \/ \* places_nearby raises, or the status is neither OK nor
              \* ZERO_RESULTS
              Step(c, AfterLoop([q EXCEPT !.page_error = TRUE]))
    /\ UNCHANGED <<store, clock, adds, place, remover>>
    /\ UNCHANGED <<hoursVars, findVars, callVars, aliasVars>>

\* Lines 239-261: the existence query has answered.
ExistsQuery(c) ==
    /\ crawl[c].pc = "exists_query"
    /\ LET f == crawl[c]
           existing_place_ids == ExistingPlaceIds(store, f.all_place_ids)
           g == [f EXCEPT
                   !.place_ids_to_process = f.all_place_ids \ existing_place_ids,
                   !.num_existing = Cardinality(existing_place_ids)]
       IN  IF g.place_ids_to_process = {}
           THEN Step(c, Return(g, 0, 0, 0))
           ELSE Step(c, [g EXCEPT !.pc = "gather"])
    /\ UNCHANGED <<store, clock, adds, place, remover>>
    /\ UNCHANGED <<hoursVars, findVars, callVars, aliasVars>>

\* The existence query raises (the store cannot be reached).
ExistsQueryFails(c) ==
    /\ crawl[c].pc = "exists_query"
    /\ crawl' = [crawl EXCEPT ![c] = [@ EXCEPT !.pc = "raised_store"]]
    /\ UNCHANGED <<store, clock, task, adds, place, remover>>
    /\ UNCHANGED <<hoursVars, findVars, callVars, aliasVars>>

Results(c) == {p \in crawl[c].place_ids_to_process : task[c][p].pc = "done"}

\* A faulty count that takes every result for one of the wanted status.
CountEvery(c, st) == Cardinality(Results(c))

CountStatus(c, st) == Cardinality({p \in Results(c) : task[c][p].status = st})

\* A faulty count that takes only provider errors for errors.
ProviderErrorsOnly(c) == CountStatus(c, "api_error")

\* Line 264
ErrorCount(c) ==
    Cardinality(Results(c)) - CountStatus(c, "success") - CountStatus(c, "skipped")

\* Lines 261-272: every task has returned a result; the coroutines are gone.
GatherDone(c) ==
    /\ crawl[c].pc = "gather"
    /\ \A p \in crawl[c].place_ids_to_process : task[c][p].pc = "done"
    /\ crawl' = [crawl EXCEPT ![c] =
            Return(crawl[c], CountStatus(c, "success"), CountStatus(c, "skipped"),
                   ErrorCount(c))]
    /\ task' = [task EXCEPT ![c] = [p \in PlaceIds |-> NoTask]]
    /\ UNCHANGED <<store, clock, adds, place, remover>>
    /\ UNCHANGED <<hoursVars, findVars, callVars, aliasVars>>

\* A faulty gather that cancels the tasks still running when one has raised.
GatherCancels(c) ==
    /\ crawl[c].pc = "gather"
    /\ \E p \in crawl[c].place_ids_to_process : task[c][p].pc = "raised"
    /\ crawl' = [crawl EXCEPT ![c] = [@ EXCEPT !.pc = "raised_task"]]
    /\ task' = [task EXCEPT ![c] =
            [p \in PlaceIds |-> IF task[c][p].pc \in {"llm", "db"}
                                THEN NoTask ELSE task[c][p]]]
    /\ UNCHANGED <<store, clock, adds, place, remover>>
    /\ UNCHANGED <<hoursVars, findVars, callVars, aliasVars>>

\* Line 261: gather (return_exceptions not set) re-raises a task's exception
\* in crawl_area as soon as that task has raised; the other tasks run on.
GatherRaises(c) ==
    /\ crawl[c].pc = "gather"
    /\ \E p \in crawl[c].place_ids_to_process : task[c][p].pc = "raised"
    /\ crawl' = [crawl EXCEPT ![c] = [@ EXCEPT !.pc = "raised_task"]]
    /\ UNCHANGED <<store, clock, task, adds, place, remover>>
    /\ UNCHANGED <<hoursVars, findVars, callVars, aliasVars>>

(***************************************************************************)
(* add_command and delete_command (bot.py).                                *)
(***************************************************************************)
\* add_command calls _process_place for one id.
AddSingle(p) ==
    /\ adds < MaxAdds
    /\ \A q \in PlaceIds : task[AddOwner][q].pc = "none"
    /\ adds' = adds + 1
    /\ \E r \in DetailOutcomes :
        task' = [task EXCEPT ![AddOwner] =
                    [q \in PlaceIds |-> IF q = p THEN Fetched(r, place[p]) ELSE NoTask]]
    /\ UNCHANGED <<store, clock, crawl, place, remover>>
    /\ UNCHANGED <<hoursVars, findVars, callVars, aliasVars>>

\* The provider's record of a place changes (new photo, corrected position).
ProviderUpdates(p) ==
    /\ \E d \in PlaceData \ {place[p]} : place' = [place EXCEPT ![p] = d]
    /\ UNCHANGED <<store, clock, crawl, task, adds, remover>>
    /\ UNCHANGED <<hoursVars, findVars, callVars, aliasVars>>

\* The frame of delete_command; between invocations it shows the id and the
\* deleted_count of the last delete that was executed.
IdleRemover == [pc |-> "idle", place_id |-> None, deleted_count |-> None]

\* delete_command up to the answer of get_restaurant_by_place_id; when nothing
\* is found it answers the user and returns.
RemoveLookup(r, p) ==
    /\ remover[r].pc = "idle"
    /\ remover' = [remover EXCEPT ![r] =
            IF DocsOf(store, p) = {}
            THEN IdleRemover
            ELSE [pc |-> "delete", place_id |-> p, deleted_count |-> None]]
    /\ UNCHANGED <<store, clock, crawl, task, adds, place>>
    /\ UNCHANGED <<hoursVars, findVars, callVars, aliasVars>>

\* delete_restaurant_by_place_id has answered; delete_command answers the user.
RemoveDelete(r) ==
    /\ remover[r].pc = "delete"
    /\ store' = DeleteOne(store, remover[r].place_id).store
    /\ remover' = [remover EXCEPT ![r] =
            [pc |-> "idle", place_id |-> remover[r].place_id,
             deleted_count |-> DeleteOne(store, remover[r].place_id).deleted_count]]
    /\ UNCHANGED <<clock, crawl, task, adds, place>>
    /\ UNCHANGED <<hoursVars, findVars, callVars, aliasVars>>

(***************************************************************************)
(* add_or_update_restaurant (database.py) called by itself.                *)
(***************************************************************************)
\* A record without its google_place_id.
WithoutKey(data) == [f \in DOMAIN data \ {"google_place_id"} |-> data[f]]

\* The records a caller passes: enriched records, the same without the key,
\* and an empty record.
CallRecords ==
    {FinalDoc(p, d) : p \in PlaceIds, d \in {DefaultData, [DefaultData EXCEPT !.photo = TRUE]}}

CallInputs == CallRecords \cup {WithoutKey(data) : data \in CallRecords} \cup {<<>>}

\* results: how each call made so far has ended.
IdleCall == [pc |-> "idle", restaurant_data |-> <<>>, results |-> <<>>]

CallIdle == call = IdleCall

\* Lines 47-53: the call up to the await of update_one.
AddOrUpdateCall(data) ==
    /\ call.pc # "await"
    /\ Len(call.results) < MaxCalls
    /\ IF HasKey(data)
       THEN /\ clock' = clock + 1
            /\ call' = [call EXCEPT !.pc = "await", !.restaurant_data =
                            SetFields(data, [last_updated |-> clock + 1])]
       ELSE /\ clock' = clock
            /\ call' = [call EXCEPT !.pc = "raised", !.restaurant_data = data,
                                    !.results = Append(@, "ValueError")]
    /\ UNCHANGED <<store, crawl, task, adds, place, remover>>
    /\ UNCHANGED <<hoursVars, findVars, aliasVars>>

\* Lines 53-62: the server applies the update_one (or fails) and the call ends.
AddOrUpdateDone ==
    /\ call.pc = "await"
    /\ \E r \in WriteOutcomes :
        IF r = "ok"
        THEN /\ store' = UpdateOneUpsert(store, call.restaurant_data.google_place_id,
                                         call.restaurant_data)
             /\ call' = [call EXCEPT !.pc = "returned",
                                     !.results = Append(@, "stored")]
        ELSE /\ store' = store
             /\ call' = [call EXCEPT !.pc = "raised",
                                     !.results = Append(@, "store_error")]
    /\ UNCHANGED <<clock, crawl, task, adds, place, remover>>
    /\ UNCHANGED <<hoursVars, findVars, aliasVars>>

(***************************************************************************)
(* Python's string operations.  A string is a sequence of characters; a    *)
(* CJK character is written as an upper-case syllable ("XIU", "XI").       *)
(***************************************************************************)
Digits == <<"0", "1", "2", "3", "4", "5", "6", "7", "8", "9">>

UpperCase == <<"A", "B", "C", "D", "E", "F", "G", "H", "I", "J", "K", "L", "M",
               "N", "O", "P", "Q", "R", "S", "T", "U", "V", "W", "X", "Y", "Z">>

LowerCase == <<"a", "b", "c", "d", "e", "f", "g", "h", "i", "j", "k", "l", "m",
               "n", "o", "p", "q", "r", "s", "t", "u", "v", "w", "x", "y", "z">>

IsDigit(ch) == \E i \in 1..Len(Digits) : Digits[i] = ch

DigitValue(ch) == (CHOOSE i \in 1..Len(Digits) : Digits[i] = ch) - 1

LowerChar(ch) ==
    IF \E i \in 1..Len(UpperCase) : UpperCase[i] = ch
    THEN LowerCase[CHOOSE i \in 1..Len(UpperCase) : UpperCase[i] = ch]
    ELSE ch

\* A faulty lower() that leaves upper-case letters as they are.
StrKeepCase(str) == str

\* str.lower()
StrLower(str) == [i \in 1..Len(str) |-> LowerChar(str[i])]

\* str.strip()
StrStrip(str) ==
    IF \A i \in 1..Len(str) : str[i] = " " THEN <<>>
    ELSE LET first == CHOOSE i \in 1..Len(str) :
                        str[i] # " " /\ \A j \in 1..(i - 1) : str[j] = " "
             last == CHOOSE i \in 1..Len(str) :
                        str[i] # " " /\ \A j \in (i + 1)..Len(str) : str[j] = " "
         IN  SubSeq(str, first, last)

\* str.split(sep) for a one-character separator
RECURSIVE StrSplit(_, _)
StrSplit(str, sep) ==
    IF \A i \in 1..Len(str) : str[i] # sep THEN <<str>>
    ELSE LET at == CHOOSE i \in 1..Len(str) :
                        str[i] = sep /\ \A j \in 1..(i - 1) : str[j] # sep
         IN  <<SubSeq(str, 1, at - 1)>> \o StrSplit(SubSeq(str, at + 1, Len(str)), sep)

\* sep.join(parts)
RECURSIVE StrJoin(_, _)
StrJoin(parts, sep) ==
    IF Len(parts) = 0 THEN <<>>
    ELSE IF Len(parts) = 1 THEN parts[1]
    ELSE parts[1] \o <<sep>> \o StrJoin(Tail(parts), sep)

\* int(str) succeeds: digits, with white space around them allowed.
IntParses(str) ==
    LET t == StrStrip(str)
    IN  Len(t) > 0 /\ \A i \in 1..Len(t) : IsDigit(t[i])

RECURSIVE DigitsValue(_)
DigitsValue(t) ==
    IF Len(t) = 0 THEN 0
    ELSE 10 * DigitsValue(SubSeq(t, 1, Len(t) - 1)) + DigitValue(t[Len(t)])

\* int(str)
IntValue(str) == DigitsValue(StrStrip(str))

\* An f-string's {n:02d} and {n}
TwoDigits(n) == <<Digits[(n \div 10) + 1], Digits[(n % 10) + 1]>>

Decimal(n) == IF n < 10 THEN <<Digits[n + 1]>> ELSE TwoDigits(n)

(***************************************************************************)
(* is_open_at_time (database.py).                                          *)
(***************************************************************************)
Weekdays == <<"monday", "tuesday", "wednesday", "thursday", "friday",
              "saturday", "sunday">>

MinutesPerDay == 1440

\* Asia/Shanghai is UTC+8 the year round.
ShanghaiOffset == 480

\* A datetime: weekday() (0 is Monday), hour*60+minute, and its UTC offset in
\* minutes.
\* target_dt.astimezone(tz): the same instant on Shanghai's clock.
Localize(dt) ==
    LET m == dt.minute + (ShanghaiOffset - dt.utcoffset)
    IN  [weekday |-> (dt.weekday + (IF m >= MinutesPerDay THEN 1
                                    ELSE IF m < 0 THEN 6 ELSE 0)) % 7,
         minute |-> (m + MinutesPerDay) % MinutesPerDay,
         utcoffset |-> ShanghaiOffset]

\* dict.get(key) of a missing key
PyNone == <<"None">>

DictGet(d, k) == IF k \in DOMAIN d THEN d[k] ELSE PyNone

\* Python's truth value of an Optional[str]
Falsy(str) == str = PyNone \/ str = <<>>

ClosedMarkers == {<<"c", "l", "o", "s", "e", "d">>, <<"XIU", "XI">>}

AllDayMarkers ==
    {<<"o", "p", "e", "n", " ", "2", "4", " ", "h", "o", "u", "r", "s">>,
     <<"2", "4", "XIAO", "SHI", "YING", "YE">>,
     <<"0", "0", ":", "0", "0", "-", "2", "4", ":", "0", "0">>}

\* A faulty comparison that takes the closing minute itself for open.
WithinHoursCloseInclusive(open_minutes, close_minutes, current_minutes) ==
    IF close_minutes < open_minutes
    THEN current_minutes >= open_minutes \/ current_minutes <= close_minutes
    ELSE open_minutes <= current_minutes /\ current_minutes <= close_minutes

\* Lines 99-102
WithinHours(open_minutes, close_minutes, current_minutes) ==
    IF close_minutes < open_minutes
    THEN current_minutes >= open_minutes \/ current_minutes < close_minutes
    ELSE open_minutes <= current_minutes /\ current_minutes < close_minutes

\* Lines 93-95 raise no ValueError: two parts around one '-', each of them two
\* integers around one ':'.
RangeParses(hours_str) ==
    LET parts == StrSplit(hours_str, "-")
    IN  /\ Len(parts) = 2
        /\ \A i \in 1..2 :
            LET fields == StrSplit(StrStrip(parts[i]), ":")
            IN  /\ Len(fields) = 2
                /\ IntParses(fields[1])
                /\ IntParses(fields[2])

\* open_hour * 60 + open_minute for part 1, close_hour * 60 + close_minute
\* for part 2
RangeMinutes(hours_str, i) ==
    LET fields == StrSplit(StrStrip(StrSplit(hours_str, "-")[i]), ":")
    IN  IntValue(fields[1]) * 60 + IntValue(fields[2])

\* A faulty evaluation that lets a range of the day before that crosses
\* midnight run on into the target day.
IsOpenWithCarryOver(opening_hours, target_dt) ==
    IF DOMAIN opening_hours = {} THEN TRUE
    ELSE LET localized_dt == Localize(target_dt)
             current_weekday == Weekdays[localized_dt.weekday + 1]
             hours_str == DictGet(opening_hours, current_weekday)
             day_before == Weekdays[((localized_dt.weekday + 6) % 7) + 1]
             carried == DictGet(opening_hours, day_before)
         IN  \/ /\ ~Falsy(carried)
                /\ RangeParses(carried)
                /\ RangeMinutes(carried, 2) < RangeMinutes(carried, 1)
                /\ localized_dt.minute < RangeMinutes(carried, 2)
             \/ IF Falsy(hours_str) \/ StrLower(hours_str) \in ClosedMarkers
                THEN FALSE
                ELSE IF StrLower(hours_str) \in AllDayMarkers THEN TRUE
                ELSE IF RangeParses(hours_str)
                     THEN WithinHours(RangeMinutes(hours_str, 1),
                                      RangeMinutes(hours_str, 2), localized_dt.minute)
                     ELSE TRUE

\* is_open_at_time(opening_hours, target_dt)
IsOpenAtTime(opening_hours, target_dt) ==
    IF DOMAIN opening_hours = {} THEN TRUE
    ELSE LET localized_dt == Localize(target_dt)
             current_weekday == Weekdays[localized_dt.weekday + 1]
             hours_str == DictGet(opening_hours, current_weekday)
         IN  IF Falsy(hours_str) \/ StrLower(hours_str) \in ClosedMarkers
             THEN FALSE
             ELSE IF StrLower(hours_str) \in AllDayMarkers THEN TRUE
             ELSE IF RangeParses(hours_str)
                  THEN WithinHours(RangeMinutes(hours_str, 1),
                                   RangeMinutes(hours_str, 2), localized_dt.minute)
                  ELSE TRUE

(***************************************************************************)
(* Inputs of is_open_at_time.                                              *)
(***************************************************************************)
\* Times of day <<hour, minute>> that opening hours are built from.
SampleTimes == {<<0, 0>>, <<2, 0>>, <<9, 30>>, <<10, 0>>, <<22, 0>>, <<24, 0>>}

Minutes(tm) == tm[1] * 60 + tm[2]

\* "HH:MM-HH:MM" as the crawler stores it, "H:MM-H:MM" as the test data
\* generator writes it, and "HH:MM - HH:MM".
Styles == {"padded", "plain", "spaced"}

FormatTime(tm, style) ==
    (IF style = "plain" THEN Decimal(tm[1]) ELSE TwoDigits(tm[1]))
        \o <<":">> \o TwoDigits(tm[2])

FormatRange(o, c, style) ==
    FormatTime(o, style)
        \o (IF style = "spaced" THEN <<" ", "-", " ">> ELSE <<"-">>)
        \o FormatTime(c, style)

RangeValues == {FormatRange(o, c, st) : o \in SampleTimes, c \in SampleTimes, st \in Styles}

\* "Closed", "closed", the Chinese closed marker, "Open 24 hours", the Chinese
\* 24-hour marker.
MarkerValues ==
    {<<"C", "l", "o", "s", "e", "d">>,
     <<"c", "l", "o", "s", "e", "d">>,
     <<"XIU", "XI">>,
     <<"O", "p", "e", "n", " ", "2", "4", " ", "h", "o", "u", "r", "s">>,
     <<"2", "4", "XIAO", "SHI", "YING", "YE">>}

\* Values that are no marker and no range: the empty string, two ranges, a
\* range written with an en dash, hours without minutes, a word for a time, a
\* time with seconds, a blank, a lone dash, a range without its end.
MalformedValues ==
    {<<>>,
     <<"1", "1", ":", "0", "0", "-", "1", "4", ":", "0", "0", ",", " ", "1", "7", ":", "0", "0", "-", "2", "2", ":", "0", "0">>,
     <<"1", "0", ":", "0", "0", "ENDASH", "2", "2", ":", "0", "0">>,
     <<"1", "0", "-", "2", "2">>,
     <<"1", "0", ":", "0", "0", "-", "l", "a", "t", "e">>,
     <<"1", "0", ":", "0", "0", "-", "2", "2", ":", "0", "0", ":", "0", "0">>,
     <<" ">>,
     <<"-">>,
     <<"1", "0", ":", "0", "0", "-">>}

DayValues == RangeValues \cup MarkerValues \cup MalformedValues

\* opening_hours maps with an entry for Monday, for Tuesday, for both or
\* for neither.
OtherDayValues == {FormatRange(<<10, 0>>, <<22, 0>>, "padded"), <<"C", "l", "o", "s", "e", "d">>}

MapOf(mon, tue) ==
    [d \in (IF mon = PyNone THEN {} ELSE {"monday"})
             \cup (IF tue = PyNone THEN {} ELSE {"tuesday"}) |->
        IF d = "monday" THEN mon ELSE tue]

HoursMaps ==
    {MapOf(mon, tue) : mon \in DayValues \cup {PyNone},
                       tue \in OtherDayValues \cup {PyNone}}

\* Minutes of the day, on Shanghai's clock, at which a query is made.
SampleMinutes == {0, 60, 119, 120, 570, 600, 1319, 1320, 1380, 1410, 1439}

\* Sunday, Monday and Tuesday
SampleWeekdays == {6, 0, 1}

\* The datetime with UTC offset `off` of the instant that is weekday wd, minute
\* m on Shanghai's clock.
AtOffset(wd, m, off) ==
    LET n == m - (ShanghaiOffset - off)
    IN  [weekday |-> (wd + (IF n < 0 THEN 6 ELSE IF n >= MinutesPerDay THEN 1 ELSE 0)) % 7,
         minute |-> (n + MinutesPerDay) % MinutesPerDay,
         utcoffset |-> off]

\* Queries come with Shanghai's offset (llm_parser.py) or in UTC.
TargetTimes ==
    {AtOffset(wd, m, off) : wd \in SampleWeekdays, m \in SampleMinutes,
                            off \in {0, ShanghaiOffset}}

HoursIdle ==
    /\ hPc = "idle"
    /\ weekday_text = <<>>
    /\ hours_arg = <<>>
    /\ dt_arg = AtOffset(0, 0, ShanghaiOffset)
    /\ is_open = FALSE

HoursInit ==
    /\ hPc = "input"
    /\ weekday_text = <<>>
    /\ hours_arg \in HoursMaps
    /\ dt_arg \in TargetTimes
    /\ is_open = FALSE

\* The call is_open_at_time(opening_hours, target_dt).
IsOpenCall ==
    /\ hPc = "input"
    /\ hPc' = "done"
    /\ is_open' = IsOpenAtTime(hours_arg, dt_arg)
    /\ UNCHANGED <<weekday_text, hours_arg, dt_arg>>
    /\ UNCHANGED <<crawlVars, findVars, callVars, aliasVars>>

(***************************************************************************)
(* The enricher's normalisation of opening hours (crawler.py).             *)
(***************************************************************************)
\* str.find(sub) + 1: where sub first occurs in str, 0 when it does not.
StrFind(str, sub) ==
    LET hits == {i \in 1..(Len(str) - Len(sub) + 1) :
                    SubSeq(str, i, i + Len(sub) - 1) = sub}
    IN  IF hits = {} THEN 0 ELSE CHOOSE i \in hits : \A j \in hits : i <= j

\* str.replace(old, new): every occurrence, found from the left, none
\* overlapping another.
RECURSIVE StrReplace(_, _, _)
StrReplace(str, old, new) ==
    LET at == StrFind(str, old)
    IN  IF at = 0 THEN str
        ELSE SubSeq(str, 1, at - 1) \o new
                \o StrReplace(SubSeq(str, at + Len(old), Len(str)), old, new)

\* A faulty table that names each day by the day after it.
weekday_mapping_shifted ==
    [day \in {<<"XING", "QI", "YI">>,
                <<"XING", "QI", "ER">>,
                <<"XING", "QI", "SAN">>,
                <<"XING", "QI", "SI">>,
                <<"XING", "QI", "WU">>,
                <<"XING", "QI", "LIU">>,
                <<"XING", "QI", "RI">>,
                <<"M", "o", "n", "d", "a", "y">>,
                <<"T", "u", "e", "s", "d", "a", "y">>,
                <<"W", "e", "d", "n", "e", "s", "d", "a", "y">>,
                <<"T", "h", "u", "r", "s", "d", "a", "y">>,
                <<"F", "r", "i", "d", "a", "y">>,
                <<"S", "a", "t", "u", "r", "d", "a", "y">>,
                <<"S", "u", "n", "d", "a", "y">>} |->
        IF day \in {<<"XING", "QI", "YI">>, <<"M", "o", "n", "d", "a", "y">>} THEN "tuesday"
        ELSE IF day \in {<<"XING", "QI", "ER">>, <<"T", "u", "e", "s", "d", "a", "y">>} THEN "wednesday"
        ELSE IF day \in {<<"XING", "QI", "SAN">>, <<"W", "e", "d", "n", "e", "s", "d", "a", "y">>} THEN "thursday"
        ELSE IF day \in {<<"XING", "QI", "SI">>, <<"T", "h", "u", "r", "s", "d", "a", "y">>} THEN "friday"
        ELSE IF day \in {<<"XING", "QI", "WU">>, <<"F", "r", "i", "d", "a", "y">>} THEN "saturday"
        ELSE IF day \in {<<"XING", "QI", "LIU">>, <<"S", "a", "t", "u", "r", "d", "a", "y">>} THEN "sunday"
        ELSE "monday"]

\* Lines 137-142
weekday_mapping ==
    [day \in {<<"XING", "QI", "YI">>,
                <<"XING", "QI", "ER">>,
                <<"XING", "QI", "SAN">>,
                <<"XING", "QI", "SI">>,
                <<"XING", "QI", "WU">>,
                <<"XING", "QI", "LIU">>,
                <<"XING", "QI", "RI">>,
                <<"M", "o", "n", "d", "a", "y">>,
                <<"T", "u", "e", "s", "d", "a", "y">>,
                <<"W", "e", "d", "n", "e", "s", "d", "a", "y">>,
                <<"T", "h", "u", "r", "s", "d", "a", "y">>,
                <<"F", "r", "i", "d", "a", "y">>,
                <<"S", "a", "t", "u", "r", "d", "a", "y">>,
                <<"S", "u", "n", "d", "a", "y">>} |->
        IF day \in {<<"XING", "QI", "YI">>, <<"M", "o", "n", "d", "a", "y">>} THEN "monday"
        ELSE IF day \in {<<"XING", "QI", "ER">>, <<"T", "u", "e", "s", "d", "a", "y">>} THEN "tuesday"
        ELSE IF day \in {<<"XING", "QI", "SAN">>, <<"W", "e", "d", "n", "e", "s", "d", "a", "y">>} THEN "wednesday"
        ELSE IF day \in {<<"XING", "QI", "SI">>, <<"T", "h", "u", "r", "s", "d", "a", "y">>} THEN "thursday"
        ELSE IF day \in {<<"XING", "QI", "WU">>, <<"F", "r", "i", "d", "a", "y">>} THEN "friday"
        ELSE IF day \in {<<"XING", "QI", "LIU">>, <<"S", "a", "t", "u", "r", "d", "a", "y">>} THEN "saturday"
        ELSE "sunday"]

\* Line 148: the three replace calls, in the order written.
HoursNormalized(hours) ==
    StrReplace(
        StrReplace(
            StrReplace(hours, <<"2", "4", " ", "XIAO", "SHI", "YING", "YE">>, <<"0", "0", ":", "0", "0", "-", "2", "4", ":", "0", "0">>),
            <<"XIU", "XI">>, <<"C", "l", "o", "s", "e", "d">>),
        <<"O", "p", "e", "n", " ", "2", "4", " ", "h", "o", "u", "r", "s">>, <<"0", "0", ":", "0", "0", "-", "2", "4", ":", "0", "0">>)

\* Lines 144-149: one line of weekday_text is entered into hours_map, when it
\* has a ': ' and its day is in the table.
LineEntered(hours_map, line) ==
    LET at == StrFind(line, <<":", " ">>)
        day == SubSeq(line, 1, at - 1)
        hours == SubSeq(line, at + 2, Len(line))
    IN  IF at = 0 \/ day \notin DOMAIN weekday_mapping THEN hours_map
        ELSE [d \in DOMAIN hours_map \cup {weekday_mapping[day]} |->
                IF d = weekday_mapping[day] THEN StrStrip(HoursNormalized(hours))
                ELSE hours_map[d]]

\* Lines 135-150: opening_hours of the record, {} when there is no
\* weekday_text.
RECURSIVE HoursMapOf(_)
HoursMapOf(lines) ==
    IF Len(lines) = 0 THEN <<>>
    ELSE LineEntered(HoursMapOf(SubSeq(lines, 1, Len(lines) - 1)), lines[Len(lines)])

\* The labels the provider writes for Monday and Tuesday, in Chinese and in
\* English, and a label the table does not have.
DayLabels(day) ==
    IF day = "monday" THEN {<<"XING", "QI", "YI">>, <<"M", "o", "n", "d", "a", "y">>}
    ELSE IF day = "tuesday" THEN {<<"XING", "QI", "ER">>, <<"T", "u", "e", "s", "d", "a", "y">>}
    ELSE {}

UnknownLabels == {<<"M", "o", "n">>}

\* The 24-hour and the closed texts of the provider, in Chinese and English.
ProviderAllDay == {<<"2", "4", " ", "XIAO", "SHI", "YING", "YE">>, <<"O", "p", "e", "n", " ", "2", "4", " ", "h", "o", "u", "r", "s">>}

ProviderClosed == {<<"XIU", "XI">>, <<"C", "l", "o", "s", "e", "d">>}

ProviderRanges == {FormatRange(<<10, 0>>, <<22, 0>>, "padded")}

ProviderLine(label, text) == label \o <<":", " ">> \o text

\* Lines of weekday_text: a day and its hours, and a line without ': '.
ProviderLines ==
    {ProviderLine(l, t) :
        l \in DayLabels("monday") \cup DayLabels("tuesday") \cup UnknownLabels,
        t \in ProviderAllDay \cup ProviderClosed \cup ProviderRanges}
    \cup {<<"M", "o", "n", "d", "a", "y", ":", "C", "l", "o", "s", "e", "d">>}

\* weekday_text absent or empty, or with one or two lines.
WeekdayTexts ==
    {<<>>} \cup {<<l>> : l \in ProviderLines}
           \cup {<<l, m>> : l \in ProviderLines, m \in ProviderLines}

\* The details of a place have arrived in _process_place.
DetailsInit ==
    /\ hPc = "details"
    /\ weekday_text \in WeekdayTexts
    /\ hours_arg = <<>>
    /\ dt_arg \in TargetTimes
    /\ is_open = FALSE

\* Lines 135-152: the record's opening_hours is built and stored; the record
\* is later read back and its opening_hours passed to is_open_at_time.
NormalizeHours ==
    /\ hPc = "details"
    /\ hPc' = "input"
    /\ hours_arg' = HoursMapOf(weekday_text)
    /\ UNCHANGED <<weekday_text, dt_arg, is_open>>
    /\ UNCHANGED <<crawlVars, findVars, callVars, aliasVars>>

(***************************************************************************)
(* The matching engine (database.py): _build_query_from_llm_filters, the   *)
(* server's evaluation of the query it builds, and find_restaurants.       *)
(***************************************************************************)
\* float(x) succeeds: a float, or a string "D.D"; None raises TypeError and
\* any other string ValueError.
FloatParses(x) ==
    \/ x.type = "float"
    \/ /\ x.type = "str"
       /\ Len(x.text) = 3
       /\ IsDigit(x.text[1]) /\ x.text[2] = "." /\ IsDigit(x.text[3])

\* float(x), in tenths
FloatValue(x) ==
    IF x.type = "float" THEN x.tenths
    ELSE 10 * DigitValue(x.text[1]) + DigitValue(x.text[3])

\* `key in filters and filters[key]` for a list-valued key
NonEmptyList(fl, key) == key \in DOMAIN fl /\ Len(fl[key]) > 0

\* and_conditions, in the order the function appends them
BuildQueryFromLLMFilters(fl) ==
    (IF NonEmptyList(fl, "cuisine_type")
     THEN <<[op |-> "$in", field |-> "cuisine_type", values |-> fl["cuisine_type"]]>>
     ELSE <<>>)
    \o (IF NonEmptyList(fl, "price_range")
        THEN <<[op |-> "$in", field |-> "price_range", values |-> fl["price_range"]]>>
        ELSE <<>>)
    \o (IF "min_rating" \in DOMAIN fl /\ FloatParses(fl["min_rating"])
        THEN <<[op |-> "$gte", field |-> "rating", bound |-> FloatValue(fl["min_rating"])]>>
        ELSE <<>>)
    \o (IF NonEmptyList(fl, "keywords")
        THEN <<[op |-> "$or",
                regex |-> StrJoin(fl["keywords"], "|"),
                options |-> "i",
                tags |-> fl["keywords"],
                cuisine_type |-> fl["keywords"]]>>
        ELSE <<>>)

SeqRange(seq) == {seq[i] : i \in 1..Len(seq)}

\* One alternative of a pattern matches text at position i: '.' matches any
\* character, every other character itself, letters in either case under 'i'.
AlternativeMatchesAt(alt, text, i, options) ==
    \A j \in 1..Len(alt) :
        \/ alt[j] = "."
        \/ alt[j] = text[i + j - 1]
        \/ options = "i" /\ LowerChar(alt[j]) = LowerChar(text[i + j - 1])

\* {'$regex': pattern, '$options': options} on a string: the pattern is a
\* regular expression, '|' separates its alternatives, and it may match
\* anywhere in the text.
RegexSearch(pattern, text, options) ==
    \E alt \in SeqRange(StrSplit(pattern, "|")) :
        \E i \in 1..(Len(text) - Len(alt) + 1) :
            AlternativeMatchesAt(alt, text, i, options)

ArrayFields == {"cuisine_type", "tags"}

\* The values a field condition is tried against: the elements of an array
\* field, the value of a scalar field, nothing for a missing field.
FieldValues(doc, field) ==
    IF field \notin DOMAIN doc THEN {}
    ELSE IF field \in ArrayFields THEN doc[field]
    ELSE {doc[field]}

\* {field: {'$in': values}}
MatchesIn(doc, field, values) == FieldValues(doc, field) \cap SeqRange(values) # {}

MatchesCondition(doc, cond) ==
    CASE cond.op = "$in" -> MatchesIn(doc, cond.field, cond.values)
      [] cond.op = "$gte" -> \E v \in FieldValues(doc, cond.field) : v >= cond.bound
      [] cond.op = "$or" ->
            \/ \E v \in FieldValues(doc, "name") : RegexSearch(cond.regex, v, cond.options)
            \/ MatchesIn(doc, "tags", cond.tags)
            \/ MatchesIn(doc, "cuisine_type", cond.cuisine_type)

\* {} matches every document, {'$and': and_conditions} those that match each
MatchesQuery(doc, and_conditions) ==
    \A i \in 1..Len(and_conditions) : MatchesCondition(doc, and_conditions[i])

\* A cursor yields documents in the collection's natural order.
RECURSIVE InIdOrder(_)
InIdOrder(docs) ==
    IF docs = {} THEN <<>>
    ELSE LET first == CHOOSE d \in docs : \A e \in docs : d._id <= e._id
         IN  <<first>> \o InIdOrder(docs \ {first})

\* [doc async for doc in self.collection.find(query)]
Find(s, and_conditions) == InIdOrder({d \in s : MatchesQuery(d, and_conditions)})

\* r.get('opening_hours', {})
HoursOf(r) == IF "opening_hours" \in DOMAIN r THEN r.opening_hours ELSE <<>>

OpenRestaurants(potential, target_time) ==
    LET IsOpen(r) == IsOpenAtTime(HoursOf(r), target_time)
    IN  SelectSeq(potential, IsOpen)

\* A faulty sample that may draw the same element twice.
SampleWithReplacement(population, k) ==
    {[i \in 1..k |-> population[f[i]]] : f \in [1..k -> 1..Len(population)]}

\* random.sample(population, k): k elements at distinct positions, in any order
RandomSample(population, k) ==
    {[i \in 1..k |-> population[f[i]]] :
        f \in {g \in [1..k -> 1..Len(population)] :
                \A i, j \in 1..k : i # j => g[i] # g[j]}}

\* r['_id'] = str(r['_id'])
WithStrId(r) == [r EXCEPT !._id = Decimal(r._id)]

\* The bodies of the methods class RestaurantDB defines.
RestaurantDBMethods ==
    {"__init__", "connect_and_setup", "_ensure_indexes", "add_or_update_restaurant",
     "delete_restaurant_by_place_id", "get_restaurant_by_place_id", "get_all_tags",
     "get_all_cuisine_types", "is_open_at_time", "_build_query_from_llm_filters",
     "find_restaurants", "close"}

\* db.<name>: a bound method, or AttributeError
GetAttr(name) == IF name \in RestaurantDBMethods THEN "method" ELSE "AttributeError"

(***************************************************************************)
(* Inputs of the matching engine.                                          *)
(***************************************************************************)
MaxCount == 2       \* largest count a find is called with

FastFood == <<"f", "f">>
HotPot == <<"h", "p">>
Sichuan == <<"s", "c">>
TakeOut == <<"t", "o">>
Groups == <<"g", "p">>
Kfc == <<"k", "f", "c">>

\* Stored records: with every field, with hours for one day, without a rating,
\* and as sparse as the collection allows.
FindDocs ==
    {[_id |-> 1, name |-> <<"K", "F", "C">>, cuisine_type |-> {FastFood},
      price_range |-> "$", rating |-> 40, tags |-> {TakeOut},
      opening_hours |-> <<>>],
     [_id |-> 2, name |-> <<"A", "b", "c">>, cuisine_type |-> {HotPot},
      price_range |-> "$$", rating |-> 45, tags |-> {Groups},
      opening_hours |-> MapOf(FormatRange(<<10, 0>>, <<22, 0>>, "padded"), PyNone)],
     [_id |-> 3, name |-> <<"H", "o", "t">>, cuisine_type |-> {HotPot, Sichuan},
      price_range |-> "$$$", tags |-> {},
      opening_hours |-> MapOf(<<"C", "l", "o", "s", "e", "d">>, PyNone)],
     [_id |-> 4, name |-> <<"b", ".", "b">>, tags |-> {Kfc}, rating |-> 30]}

\* A filter group is a set: empty when the key is absent, else its value.
FiltersOf(c, p, m, k) ==
    [g \in (IF c = {} THEN {} ELSE {"cuisine_type"})
             \cup (IF p = {} THEN {} ELSE {"price_range"})
             \cup (IF m = {} THEN {} ELSE {"min_rating"})
             \cup (IF k = {} THEN {} ELSE {"keywords"}) |->
        CASE g = "cuisine_type" -> CHOOSE v \in c : TRUE
          [] g = "price_range" -> CHOOSE v \in p : TRUE
          [] g = "min_rating" -> CHOOSE v \in m : TRUE
          [] g = "keywords" -> CHOOSE v \in k : TRUE]

CuisineGroups == {{}, {<<>>}, {<<HotPot>>}, {<<FastFood, Sichuan>>}}

PriceGroups == {{}, {<<"$">>}, {<<"$", "$$">>}}

RatingGroups ==
    {{}, {[type |-> "float", tenths |-> 45]},
     {[type |-> "str", text |-> <<"4", ".", "0">>]},
     {[type |-> "str", text |-> <<"h", "i", "g", "h">>]},
     {[type |-> "NoneType"]}}

KeywordGroups ==
    {{}, {<<>>}, {<<Kfc>>}, {<<Sichuan, Groups>>}, {<<<<"B">>>>}, {<<<<".">>>>},
     {<<<<"a", ".", "c">>>>}}

FilterInputs ==
    {FiltersOf(c, p, m, k) : c \in CuisineGroups, p \in PriceGroups,
                             m \in RatingGroups, k \in KeywordGroups}

\* Monday noon and Monday 23:00 on Shanghai's clock
FindTimes == {AtOffset(0, 720, ShanghaiOffset), AtOffset(0, 1380, ShanghaiOffset)}

FindIdle ==
    /\ fPc = "idle"
    /\ filters = <<>>
    /\ query_time = AtOffset(0, 0, ShanghaiOffset)
    /\ count = 0
    /\ potential_restaurants = <<>>
    /\ selected_restaurants = <<>>
    /\ nearby_reply = ""

FindInit ==
    /\ fPc = "input"
    /\ filters \in FilterInputs
    /\ query_time \in FindTimes
    /\ count \in 0..MaxCount
    /\ potential_restaurants = <<>>
    /\ selected_restaurants = <<>>
    /\ nearby_reply = ""

\* find_restaurants(filters, query_time, count)
FindRestaurants ==
    /\ fPc = "input"
    /\ LET potential == Find(store, BuildQueryFromLLMFilters(filters))
           open_restaurants == OpenRestaurants(potential, query_time)
       IN  /\ potential_restaurants' = potential
           /\ \E selected \in (IF Len(open_restaurants) > count
                               THEN RandomSample(open_restaurants, count)
                               ELSE {open_restaurants}) :
                selected_restaurants' = [i \in 1..Len(selected) |-> WithStrId(selected[i])]
    /\ fPc' = "found"
    /\ UNCHANGED <<filters, query_time, count, nearby_reply>>
    /\ UNCHANGED <<crawlVars, hoursVars, callVars, aliasVars>>

\* find_nearby (bot.py): the location resolves to coordinates or not; with
\* coordinates the handler looks up db.find_restaurants_near_location, and
\* its except clause turns any exception into an error reply.
FindNearby ==
    /\ fPc = "input"
    /\ \E resolved \in BOOLEAN :
        nearby_reply' =
            IF ~resolved THEN "location_error"
            ELSE IF GetAttr("find_restaurants_near_location") = "AttributeError"
                 THEN "error"
                 ELSE "results"
    /\ fPc' = "replied"
    /\ UNCHANGED <<filters, query_time, count, potential_restaurants,
                   selected_restaurants>>
    /\ UNCHANGED <<crawlVars, hoursVars, callVars, aliasVars>>

(***************************************************************************)
(* Location aliases (user_preferences.py).                                 *)
(***************************************************************************)
\* Discord servers; guild_id None is the global scope.
Guilds == {1, 2}

Scopes == Guilds \cup {None}

\* One alias in two spellings, and a name nobody has added.
AliasNames == {<<"H", "Q">>, <<"h", "q">>}

LookupNames == AliasNames \cup {<<"g", "y", "m">>}

\* Two points an alias may stand for.
Points == {1, 2}

\* find_one found nothing
NoAlias == [alias |-> <<>>, coordinates |-> None, guild_id |-> None]

IdleAliasCall ==
    [op |-> "none", alias |-> <<>>, coordinates |-> None, guild_id |-> None,
     result |-> "none", deleted_count |-> 0]

IdleAliasGet ==
    [pc |-> "idle", alias |-> <<>>, guild_id |-> None, result |-> NoAlias]

AliasIdle ==
    /\ location_aliases = {}
    /\ alias_unique = TRUE
    /\ alias_call = IdleAliasCall
    /\ alias_get = IdleAliasGet

\* Lines 29-39, on an empty collection: create_index on alias with
\* unique=True has succeeded, or an OperationFailure raised before it or by
\* it was caught and the index is missing.
EnsureIndexes ==
    /\ location_aliases = {}
    /\ alias_unique \in BOOLEAN
    /\ alias_call = IdleAliasCall
    /\ alias_get = IdleAliasGet

\* The documents a filter on alias and guild_id selects.
AliasMatches(coll, key, guild_id) ==
    {d \in coll : d.alias = key /\ d.guild_id = guild_id}

\* Lines 99-146: the upsert filtered on alias and guild_id.  A match is
\* updated in place; otherwise a document is inserted, which the unique index
\* on alias refuses (DuplicateKeyError) when any document, of whatever
\* guild_id, already has the alias.
AddLocationAlias(alias, point, guild_id) ==
    LET key == StrLower(alias)
        alias_data == [alias |-> key, coordinates |-> point, guild_id |-> guild_id]
        matched == AliasMatches(location_aliases, key, guild_id)
        ended(r) == [op |-> "add", alias |-> alias, coordinates |-> point,
                     guild_id |-> guild_id, result |-> r, deleted_count |-> 0]
    IN  /\ IF matched # {}
           THEN /\ \E d \in matched :
                    location_aliases' = (location_aliases \ {d}) \cup {alias_data}
                /\ alias_call' = ended("matched")
           ELSE IF alias_unique /\ \E d \in location_aliases : d.alias = key
           THEN /\ location_aliases' = location_aliases
                /\ alias_call' = ended("DuplicateKeyError")
           ELSE /\ location_aliases' = location_aliases \cup {alias_data}
                /\ alias_call' = ended("upserted")
        /\ UNCHANGED <<alias_unique, alias_get>>
        /\ UNCHANGED <<crawlVars, hoursVars, findVars, callVars>>

\* Lines 169-175
DeleteLocationAlias(alias, guild_id) ==
    LET matched == AliasMatches(location_aliases, StrLower(alias), guild_id)
        ended(n) == [op |-> "delete", alias |-> alias, coordinates |-> None,
                     guild_id |-> guild_id, result |-> "deleted",
                     deleted_count |-> n]
    IN  /\ IF matched # {}
           THEN /\ \E d \in matched : location_aliases' = location_aliases \ {d}
                /\ alias_call' = ended(1)
           ELSE /\ location_aliases' = location_aliases
                /\ alias_call' = ended(0)
        /\ UNCHANGED <<alias_unique, alias_get>>
        /\ UNCHANGED <<crawlVars, hoursVars, findVars, callVars>>

\* Lines 148-159: get_location_alias is called and awaits its first find_one,
\* on the guild when a guild_id is given.
GetLocationAlias(alias, guild_id) ==
    /\ alias_get.pc \in {"idle", "returned"}
    /\ alias_get' = [pc |-> IF guild_id # None THEN "guild_lookup"
                                               ELSE "global_lookup",
                     alias |-> alias, guild_id |-> guild_id, result |-> NoAlias]
    /\ UNCHANGED <<location_aliases, alias_unique, alias_call>>
    /\ UNCHANGED <<crawlVars, hoursVars, findVars, callVars>>

\* Lines 154-159: the guild's find_one answers; a document found is returned.
GuildLookup ==
    /\ alias_get.pc = "guild_lookup"
    /\ LET found == AliasMatches(location_aliases, StrLower(alias_get.alias),
                                 alias_get.guild_id)
       IN  IF found # {}
           THEN \E d \in found :
                    alias_get' = [alias_get EXCEPT !.pc = "returned", !.result = d]
           ELSE alias_get' = [alias_get EXCEPT !.pc = "global_lookup"]
    /\ UNCHANGED <<location_aliases, alias_unique, alias_call>>
    /\ UNCHANGED <<crawlVars, hoursVars, findVars, callVars>>

\* Lines 161-167: the global find_one answers and its result is returned.
GlobalLookup ==
    /\ alias_get.pc = "global_lookup"
    /\ LET found == AliasMatches(location_aliases, StrLower(alias_get.alias), None)
       IN  IF found # {}
           THEN \E d \in found :
                    alias_get' = [alias_get EXCEPT !.pc = "returned", !.result = d]
           ELSE alias_get' = [alias_get EXCEPT !.pc = "returned", !.result = NoAlias]
    /\ UNCHANGED <<location_aliases, alias_unique, alias_call>>
    /\ UNCHANGED <<crawlVars, hoursVars, findVars, callVars>>

(***************************************************************************)
(* Specifications.                                                         *)
(***************************************************************************)
\* The collection as earlier runs may have left it: at most one document per
\* place id, written before this run's clock started.
SeededStores(known) ==
    {{SetFields(FinalDoc(p, DefaultData), [_id |-> p, last_updated |-> 0]) :
            p \in ids} : ids \in SUBSET known}

CrawlInit(known) ==
    /\ store \in SeededStores(known)
    /\ clock = 0
    /\ crawl = [c \in Crawls |-> IdleCrawl]
    /\ task = [o \in Owners |-> [p \in PlaceIds |-> NoTask]]
    /\ adds = 0
    /\ place = [p \in PlaceIds |-> DefaultData]
    /\ remover = [r \in Removers |-> IdleRemover]

CrawlIdle == CrawlInit({})

Init == CrawlInit(PlaceIds) /\ HoursIdle /\ FindIdle /\ CallIdle /\ AliasIdle

\* One crawl with every parameter combination.
Next ==
    \/ StartCrawl(1, FullParams)
    \/ SkipPage(1, PlaceIds)
    \/ FetchPage(1, PlaceIds)
    \/ ExistsQuery(1)
    \/ ExistsQueryFails(1)
    \/ GatherDone(1)
    \/ GatherRaises(1)
    \/ \E p \in PlaceIds : TaskClassified(1, p)
    \/ \E p \in PlaceIds : TaskWritten(1, p)

Spec == Init /\ [][Next]_vars

\* The same crawl when every call it awaits returns: a nearby search answers
\* or raises (lines 192-193, 207-208), the existence query answers or raises
\* (lines 240-244), each _process_place coroutine is resumed by the event
\* loop when its classifier call and its update_one have returned, and
\* gather resumes crawl_area (line 261).  Nothing obliges a user to start a
\* crawl.
SpecLive ==
    /\ Init
    /\ [][Next]_vars
    /\ WF_vars(SkipPage(1, PlaceIds) \/ FetchPage(1, PlaceIds))
    /\ WF_vars(ExistsQuery(1) \/ ExistsQueryFails(1))
    /\ WF_vars(GatherDone(1) \/ GatherRaises(1))
    /\ \A p \in PlaceIds : WF_vars(TaskClassified(1, p))
    /\ \A p \in PlaceIds : WF_vars(TaskWritten(1, p))

\* The place every actor of the concurrent specification works on.
SharedIds == {1}

InitConc == CrawlInit(SharedIds) /\ HoursIdle /\ FindIdle /\ CallIdle /\ AliasIdle

\* Two concurrent crawls over the whole page range, beside add and delete
\* commands, all on the same place.
NextConc ==
    \/ \E c \in Crawls : StartCrawl(c, WindowlessParams)
    \/ \E c \in Crawls : FetchPage(c, SharedIds)
    \/ \E c \in Crawls : ExistsQuery(c)
    \/ \E c \in Crawls : ExistsQueryFails(c)
    \/ \E c \in Crawls : GatherDone(c)
    \/ \E c \in Crawls : GatherRaises(c)
    \/ \E o \in Owners, p \in SharedIds : TaskClassified(o, p)
    \/ \E o \in Owners, p \in SharedIds : TaskWritten(o, p)
    \/ \E p \in SharedIds : AddSingle(p)
    \/ \E r \in {1}, p \in SharedIds : RemoveLookup(r, p)
    \/ \E r \in {1} : RemoveDelete(r)

SpecConc == InitConc /\ [][NextConc]_vars

\* Calls of is_open_at_time on every sampled record and query time.
InitHours == CrawlIdle /\ HoursInit /\ FindIdle /\ CallIdle /\ AliasIdle

NextHours == IsOpenCall

SpecHours == InitHours /\ [][NextHours]_vars

\* The enricher normalises the provider's hours, and a query evaluates the
\* record it stored.
InitNormalize == CrawlIdle /\ DetailsInit /\ FindIdle /\ CallIdle /\ AliasIdle

NextNormalize ==
    \/ NormalizeHours
    \/ IsOpenCall

SpecNormalize == InitNormalize /\ [][NextNormalize]_vars

\* One crawl and one add command on the same place, in a collection that
\* starts empty, while the provider's record of the place changes.
InitEnrich == CrawlIdle /\ HoursIdle /\ FindIdle /\ CallIdle /\ AliasIdle

NextEnrich ==
    \/ StartCrawl(1, WindowlessParams)
    \/ FetchPage(1, SharedIds)
    \/ ExistsQuery(1)
    \/ ExistsQueryFails(1)
    \/ GatherDone(1)
    \/ GatherRaises(1)
    \/ \E o \in {1, AddOwner}, p \in SharedIds : TaskClassified(o, p)
    \/ \E o \in {1, AddOwner}, p \in SharedIds : TaskWritten(o, p)
    \/ \E p \in SharedIds : AddSingle(p)
    \/ \E p \in SharedIds : ProviderUpdates(p)

SpecEnrich == InitEnrich /\ [][NextEnrich]_vars

\* Two administrators issue delete commands, beside an add command, on a
\* collection that earlier runs have filled.
InitRemove == CrawlInit(PlaceIds) /\ HoursIdle /\ FindIdle /\ CallIdle /\ AliasIdle

NextRemove ==
    \/ \E r \in Removers, p \in PlaceIds : RemoveLookup(r, p)
    \/ \E r \in Removers : RemoveDelete(r)
    \/ \E p \in PlaceIds : AddSingle(p)
    \/ \E p \in PlaceIds : TaskClassified(AddOwner, p)
    \/ \E p \in PlaceIds : TaskWritten(AddOwner, p)

SpecRemove == InitRemove /\ [][NextRemove]_vars

\* Direct calls of add_or_update_restaurant, with and without the key, beside
\* an add command, on a collection that earlier runs have filled.
InitUpsert == CrawlInit(PlaceIds) /\ HoursIdle /\ FindIdle /\ CallIdle /\ AliasIdle

NextUpsert ==
    \/ \E data \in CallInputs : AddOrUpdateCall(data)
    \/ AddOrUpdateDone
    \/ \E p \in PlaceIds : AddSingle(p)
    \/ \E p \in PlaceIds : TaskClassified(AddOwner, p)
    \/ \E p \in PlaceIds : TaskWritten(AddOwner, p)

SpecUpsert == InitUpsert /\ [][NextUpsert]_vars

\* A stub provider, classifier and store that always succeed: no request
\* fails, every detail record is complete, every classification is positive
\* and every write is applied.
StubsSucceed ==
    /\ \A c \in Crawls :
        /\ ~crawl[c].page_error
        /\ crawl[c].pc \notin {"raised_store", "raised_task"}
    /\ \A o \in Owners, p \in PlaceIds :
        /\ task[o][p].pc # "raised"
        /\ task[o][p].details # "partial"
        /\ task[o][p].status \notin {"api_error", "skipped", "db_error"}

\* Capped crawls without force_update.
CappedParams == {q \in FullParams : q.max_results > 0 /\ ~q.force_update}

InitStubs == CrawlIdle /\ HoursIdle /\ FindIdle /\ CallIdle /\ AliasIdle

\* One capped crawl of an empty collection against the stubs.
NextStubs ==
    \/ StartCrawl(1, CappedParams) /\ StubsSucceed'
    \/ SkipPage(1, PlaceIds) /\ StubsSucceed'
    \/ FetchPage(1, PlaceIds) /\ StubsSucceed'
    \/ ExistsQuery(1) /\ StubsSucceed'
    \/ GatherDone(1) /\ StubsSucceed'
    \/ \E p \in PlaceIds : TaskClassified(1, p) /\ StubsSucceed'
    \/ \E p \in PlaceIds : TaskWritten(1, p) /\ StubsSucceed'

SpecStubs == InitStubs /\ [][NextStubs]_vars

\* Finds and nearby commands over every sampled collection, filter and time.
InitFind ==
    /\ store \in SUBSET FindDocs
    /\ clock = 0
    /\ crawl = [c \in Crawls |-> IdleCrawl]
    /\ task = [o \in Owners |-> [p \in PlaceIds |-> NoTask]]
    /\ adds = 0
    /\ place = [p \in PlaceIds |-> DefaultData]
    /\ remover = [r \in Removers |-> IdleRemover]
    /\ HoursIdle
    /\ FindInit
    /\ CallIdle
    /\ AliasIdle

NextFind ==
    \/ FindRestaurants
    \/ FindNearby

SpecFind == InitFind /\ [][NextFind]_vars

\* Aliases are added, looked up and deleted in every scope.
InitAlias == CrawlIdle /\ HoursIdle /\ FindIdle /\ CallIdle /\ EnsureIndexes

NextAlias ==
    \/ \E alias \in AliasNames, point \in Points, guild_id \in Scopes :
            AddLocationAlias(alias, point, guild_id)
    \/ \E alias \in AliasNames, guild_id \in Scopes :
            DeleteLocationAlias(alias, guild_id)
    \/ \E alias \in LookupNames, guild_id \in Scopes :
            GetLocationAlias(alias, guild_id)
    \/ GuildLookup
    \/ GlobalLookup

SpecAlias == InitAlias /\ [][NextAlias]_vars

(***************************************************************************)
(* Claims about the ingestion pipeline.                                    *)
(***************************************************************************)
Summary(c) == crawl[c].summary

GatherReturns(c) == crawl[c].pc = "gather" /\ crawl'[c].pc = "done"

\* C1: in every summary a crawl returns, succeeded + skipped_non_poi + errors
\* equals to_process, and at the gather's return each id to process is counted
\* in the one bucket of its task's outcome: success under succeeded, skipped
\* under skipped_non_poi, a provider or store error under errors.
OutcomeBucketsPartition ==
    /\ [](\A c \in Crawls : crawl[c].pc = "done" =>
            /\ Summary(c).restaurants_added_or_updated
                 + Summary(c).non_restaurants_skipped + Summary(c).errors
               = Summary(c).to_process
            /\ Summary(c).to_process = Cardinality(crawl[c].place_ids_to_process))
    /\ [][\A c \in Crawls : GatherReturns(c) =>
            LET with(st) == Cardinality({p \in crawl[c].place_ids_to_process :
                                            task[c][p].status \in st})
            IN  /\ Summary(c)'.restaurants_added_or_updated = with({"success"})
                /\ Summary(c)'.non_restaurants_skipped = with({"skipped"})
                /\ Summary(c)'.errors = with({"api_error", "db_error"})]_vars

\* A crawl has returned a summary that counts one success and one error.
OutcomeBucketsWitness ==
    \E c \in Crawls :
        /\ crawl[c].pc = "done"
        /\ Summary(c).restaurants_added_or_updated = 1
        /\ Summary(c).errors = 1

\* C2: once the ids to process are known, crawl_area returns a summary and
\* never propagates an exception to its caller, whatever the provider, the
\* classifier and the store answer for each id.
NoExceptionReachesCaller == \A c \in Crawls : crawl[c].pc # "raised_task"

\* The step in which crawl c learns what it has to process: the end of the
\* loop under force_update, the answer of the existence query otherwise.
Deduplicates(c) ==
    /\ crawl[c].pc \in {"idle", "sleep_skip", "fetch", "exists_query"}
    /\ crawl'[c].pc \in {"gather", "done"}

\* C3: with S the discovered ids and E the ids stored when the existence query
\* runs, a crawl without force_update processes S \ E and reports |S \cap E| as
\* already existing (total_found = already_exists + to_process); a crawl with
\* force_update processes S and reports 0 as already existing.
DedupCorrect ==
    /\ [][\A c \in Crawls : Deduplicates(c) =>
            LET S == crawl'[c].all_place_ids
                E == StoreIds(store)
            IN  IF crawl'[c].force_update
                THEN /\ crawl'[c].place_ids_to_process = S
                     /\ crawl'[c].num_existing = 0
                ELSE /\ crawl'[c].place_ids_to_process = S \ E
                     /\ crawl'[c].num_existing = Cardinality(S \cap E)]_vars
    /\ [](\A c \in Crawls : crawl[c].pc = "done" =>
            /\ Summary(c).total_found = Cardinality(crawl[c].all_place_ids)
            /\ Summary(c).to_process = Cardinality(crawl[c].place_ids_to_process)
            /\ Summary(c).already_exists = crawl[c].num_existing
            /\ ~crawl[c].force_update =>
                 Summary(c).total_found
                   = Summary(c).already_exists + Summary(c).to_process)

\* A crawl without force_update has found one stored id and one new id, and
\* has returned its summary.
DedupWitness ==
    \E c \in Crawls :
        /\ crawl[c].pc = "done"
        /\ ~crawl[c].force_update
        /\ Summary(c).already_exists = 1
        /\ Summary(c).to_process = 1

\* A crawl with force_update processes an id that is stored.
ForcedDedupWitness ==
    \E c \in Crawls :
        /\ crawl[c].pc = "gather"
        /\ crawl[c].force_update
        /\ crawl[c].place_ids_to_process \cap StoreIds(store) # {}

\* The upsert of task (o, p) is applied to the store.
UpsertApplied(o, p) ==
    /\ task[o][p].pc = "db"
    /\ task'[o][p].pc # "db"
    /\ store' # store

CapRespected ==
    \A c \in Crawls : crawl[c].max_results > 0 =>
        /\ Cardinality(crawl[c].all_place_ids) <= crawl[c].max_results
        /\ crawl[c].pc = "done" => Summary(c).total_found <= crawl[c].max_results

\* A page with more ids than slots remain has been cut to the cap.
CapRespectedWitness ==
    \E c \in Crawls :
        /\ crawl[c].max_results > 0
        /\ Cardinality(crawl[c].places_result) > crawl[c].max_results
        /\ Cardinality(crawl[c].all_place_ids) = crawl[c].max_results
        /\ crawl[c].pc = "done"

\* Crawl c receives the answer to a nearby-search request of its window.
PageFetched(c) ==
    /\ crawl[c].pc = "fetch"
    /\ crawl'[c].pages_fetched = crawl[c].pages_fetched + 1

\* C11: with max_results > 0 and r = max_results - |accumulated| > 0, a fetched
\* page that holds at least r ids not yet accumulated (it may repeat ids of
\* earlier pages) adds exactly r new ids, and the accumulated set then has
\* exactly max_results ids.
CapTruncationExact ==
    [][\A c \in Crawls : (PageFetched(c) /\ crawl[c].max_results > 0) =>
        LET r == crawl[c].max_results - Cardinality(crawl[c].all_place_ids)
            new == crawl'[c].places_result \ crawl[c].all_place_ids
        IN  (r > 0 /\ Cardinality(new) >= r) =>
                /\ Cardinality(crawl'[c].all_place_ids \ crawl[c].all_place_ids) = r
                /\ Cardinality(crawl'[c].all_place_ids) = crawl[c].max_results]_vars

\* A nearby-search request of crawl c raises or answers with a bad status.
PageFails(c) == ~crawl[c].page_error /\ crawl'[c].page_error

\* C12: when a nearby-search request fails, the crawl requests no further
\* page, keeps every id accumulated from earlier pages and takes them on to
\* dedup and enrichment as after a regular end of pagination, and the failure
\* itself raises nothing: with nothing accumulated the summary is returned at
\* once, and every summary of such a crawl reports what was accumulated.
PageErrorIsPartial ==
    /\ [][\A c \in Crawls : PageFails(c) =>
            /\ crawl'[c].all_place_ids = crawl[c].all_place_ids
            /\ IF crawl[c].all_place_ids = {} THEN crawl'[c].pc = "done"
               ELSE IF crawl[c].force_update
               THEN /\ crawl'[c].pc = "gather"
                    /\ crawl'[c].place_ids_to_process = crawl[c].all_place_ids
               ELSE crawl'[c].pc = "exists_query"]_vars
    /\ [][\A c \in Crawls : crawl[c].page_error =>
            /\ crawl'[c].page_error
            /\ crawl'[c].pages_fetched = crawl[c].pages_fetched
            /\ crawl'[c].all_place_ids = crawl[c].all_place_ids
            /\ crawl'[c].pc \notin {"fetch", "sleep_skip"}
            /\ (crawl[c].pc = "exists_query" /\ crawl'[c].pc \in {"gather", "done"}) =>
                 crawl'[c].place_ids_to_process
                    = crawl[c].all_place_ids \ StoreIds(store)
            /\ (crawl[c].pc = "gather" /\ crawl'[c].pc = "raised_task") =>
                 \E p \in crawl[c].place_ids_to_process : task[c][p].pc = "raised"]_vars
    /\ [](\A c \in Crawls : (crawl[c].page_error /\ crawl[c].pc = "done") =>
            /\ Summary(c).total_found = Cardinality(crawl[c].all_place_ids)
            /\ Summary(c).to_process = Cardinality(crawl[c].place_ids_to_process)
            /\ Summary(c).restaurants_added_or_updated
                 + Summary(c).non_restaurants_skipped + Summary(c).errors
               = Summary(c).to_process)

\* The second page request failed; the id of the first page was enriched and
\* stored, and the summary reports it.
PageErrorIsPartialWitness ==
    \E c \in Crawls :
        /\ crawl[c].page_error
        /\ crawl[c].pages_fetched = 1
        /\ crawl[c].pc = "done"
        /\ Summary(c).total_found = 1
        /\ Summary(c).restaurants_added_or_updated = 1

\* C13: a crawl with max_results = M > 0 and without force_update, of an
\* empty collection, against a provider, a classifier and a store that always
\* succeed and classify positively, returns to_process = total_found <= M,
\* already_exists = 0, errors = 0 and succeeded = to_process, and the
\* collection then holds exactly the ids processed.
EndToEnd ==
    \A c \in Crawls : crawl[c].pc = "done" =>
        /\ Summary(c).to_process = Summary(c).total_found
        /\ Summary(c).total_found <= crawl[c].max_results
        /\ Summary(c).already_exists = 0
        /\ Summary(c).errors = 0
        /\ Summary(c).non_restaurants_skipped = 0
        /\ Summary(c).restaurants_added_or_updated = Summary(c).to_process
        /\ Summary(c).to_process = Cardinality(crawl[c].place_ids_to_process)
        /\ StoreIds(store) = crawl[c].place_ids_to_process
        /\ \A p \in PlaceIds : Cardinality(DocsOf(store, p)) <= 1

\* A crawl capped at two has found, processed and stored two places.
EndToEndWitness ==
    \E c \in Crawls :
        /\ crawl[c].pc = "done"
        /\ crawl[c].max_results = 2
        /\ Summary(c).restaurants_added_or_updated = 2
        /\ Cardinality(store) = 2

\* The record task (o, p) submits to add_or_update_restaurant, timestamp
\* included.
Submitted(o, p) ==
    SetFields(FinalDoc(p, task[o][p].data), [last_updated |-> task[o][p].stamp])

\* C14: after an upsert of an id that is stored, every field of the stored
\* record has the submitted record's value, and the stored record has no
\* field (the row id apart) that the submitted record does not carry, such as
\* a photo URL of the previous version.
UpsertReplaces ==
    [][\A o \in Owners, p \in PlaceIds :
        (UpsertApplied(o, p) /\ DocsOf(store, p) # {}) =>
            \A d \in DocsOf(store', p) :
                /\ \A f \in DOMAIN Submitted(o, p) : d[f] = Submitted(o, p)[f]
                /\ (DOMAIN d) \ {"_id"} \subseteq DOMAIN Submitted(o, p)]_vars

\* C17: every record the enricher writes has the provider's longitude first
\* and the provider's latitude second in location.coordinates.
CoordinateOrder ==
    /\ [][\A o \in Owners, p \in PlaceIds : UpsertApplied(o, p) =>
            \A d \in DocsOf(store', p) :
                /\ Len(d.location.coordinates) = 2
                /\ d.location.coordinates[1] = task[o][p].data.lng
                /\ d.location.coordinates[2] = task[o][p].data.lat]_vars
    /\ [](\A o \in Owners, p \in PlaceIds :
            task[o][p].pc \in {"llm", "db"} /\ task[o][p].details = "full" =>
                task[o][p].data \in PlaceData)
    /\ [](\A d \in store :
            /\ d.location.coordinates[1] \in Longitudes
            /\ d.location.coordinates[2] \in Latitudes)

\* A record with longitude 114 and latitude 22 was written.
CoordinateOrderWitness ==
    \E d \in store :
        /\ d.last_updated > 0
        /\ d.location.coordinates = <<114, 22>>

\* C18: in a collection that starts empty, a record gets into the collection
\* or changes only by the write of an enrichment of its id whose detail fetch
\* succeeded and whose classification was positive; an enrichment that ends
\* in a provider error or in a negative classification leaves the collection
\* unchanged.
Lifecycle ==
    /\ [][store' # store =>
            \E o \in Owners, p \in PlaceIds :
                /\ UpsertApplied(o, p)
                /\ task[o][p].details = "full"
                /\ task[o][p].classified = "positive"
                /\ \A d \in store' \ store : d.google_place_id = p
                /\ \A d \in store \ store' : d.google_place_id = p]_vars
    /\ [][\A o \in Owners, p \in PlaceIds :
            \/ task[o][p].pc = "llm" /\ task'[o][p].pc \in {"none", "done", "raised"}
            \/ task[o][p].pc = "none" /\ task'[o][p].status = "api_error"
            => store' = store]_vars

\* The place was stored by one enrichment, and a later enrichment of it by the
\* crawl was skipped.
LifecycleWitness ==
    \E p \in PlaceIds :
        /\ task[1][p].status = "skipped"
        /\ p \in StoreIds(store)

\* C19: pages_crawled in every summary equals the number of nearby-search
\* pages the crawl fetched successfully, skipped pages included, however
\* pagination ended.
PagesCrawledCountsFetches ==
    \A c \in Crawls :
        crawl[c].pc = "done" => Summary(c).pages_crawled = crawl[c].pages_fetched

\* Remover r executes its delete in this step.
Deletes(r) == remover[r].pc = "delete" /\ remover'[r].pc = "idle"

\* C15: no step of a crawl (forced or not) or of an add command, whatever its
\* outcome, takes a place id out of the store; an id leaves the store only in
\* the delete step of a delete command for that id.
PipelineNeverDeletes ==
    [][\A p \in PlaceIds :
            (p \in StoreIds(store) /\ p \notin StoreIds(store')) =>
                \E r \in Removers : Deletes(r) /\ remover[r].place_id = p]_vars

\* A forced crawl has written a place that was stored before, a crawl that
\* is not forced has passed it over as existing, an add command has come and
\* gone, and the place is still stored while a delete command for it is about
\* to delete.
PipelineNeverDeletesWitness ==
    \E p \in PlaceIds :
        /\ crawl[1].force_update
        /\ task[1][p].status = "success"
        /\ ~crawl[2].force_update
        /\ crawl[2].pc = "done"
        /\ Summary(2).already_exists = 1
        /\ adds = 1
        /\ task[AddOwner][p].pc = "none"
        /\ p \in StoreIds(store)
        /\ remover[1].pc = "delete"
        /\ remover[1].place_id = p

\* C16: a delete reports deleted_count 1 iff a record with its id was stored
\* when the delete executed and 0 otherwise; afterwards no record with that
\* id is stored and every record with another id is unchanged; and of two
\* delete commands for the same id that both passed the existence lookup
\* before either deleted, exactly one reports a deletion.
RemoveEffect ==
    /\ [][\A r \in Removers : Deletes(r) =>
            /\ remover'[r].deleted_count \in {0, 1}
            /\ remover'[r].deleted_count = 1 <=>
                    remover[r].place_id \in StoreIds(store)
            /\ DocsOf(store', remover[r].place_id) = {}
            /\ {d \in store' : d.google_place_id # remover[r].place_id}
                    = {d \in store : d.google_place_id # remover[r].place_id}
            /\ \A q \in Removers \ {r} :
                    (/\ remover[q].pc = "delete"
                     /\ remover[q].place_id = remover[r].place_id
                     /\ remover[r].place_id \in StoreIds(store)
                     /\ task' = task) =>
                        /\ remover'[r].deleted_count = 1
                        /\ DeleteOne(store', remover'[q].place_id).deleted_count = 0]_vars
    /\ [](adds = 0 =>
            \A r \in Removers : \A q \in Removers \ {r} :
                (/\ remover[r].pc = "idle" /\ remover[q].pc = "idle"
                 /\ remover[r].place_id # None
                 /\ remover[r].place_id = remover[q].place_id) =>
                    remover[r].deleted_count + remover[q].deleted_count = 1)

\* Two delete commands for the same id both passed the lookup before either
\* deleted; one has reported a deletion, the other none, the id is gone and
\* the record of the other place is still stored.
RemoveEffectWitness ==
    \E p \in PlaceIds :
        /\ remover[1].pc = "idle" /\ remover[2].pc = "idle"
        /\ remover[1].place_id = p /\ remover[2].place_id = p
        /\ remover[1].deleted_count = 1
        /\ remover[2].deleted_count = 0
        /\ DocsOf(store, p) = {}
        /\ StoreIds(store) = PlaceIds \ {p}
        /\ adds = 0

\* C20: a crawl hands control back to its caller, with a summary or with an
\* exception, only when none of the enrichment tasks it launched is still
\* running.
BarrierHolds ==
    \A c \in Crawls :
        crawl[c].pc \in {"done", "raised_task", "raised_store"} =>
            \A p \in PlaceIds : task[c][p].pc \notin {"llm", "db"}

\* C21: an enrichment task of a crawl that is waiting for the classifier or
\* for the store is moved on by its own step only, never ended or changed by
\* a sibling's outcome or by the gather re-raising a sibling's exception; and
\* when the store applies its write, the task returns success and its record
\* is stored with the task's timestamp.
SiblingIsolation ==
    [][\A c \in Crawls, p \in PlaceIds :
        /\ (task[c][p].pc = "llm" /\ task'[c][p] # task[c][p]) =>
                /\ task'[c][p].pc \in {"db", "done", "raised"}
                /\ \A q \in PlaceIds \ {p} : task'[c][q] = task[c][q]
        /\ (task[c][p].pc = "db" /\ task'[c][p] # task[c][p]) =>
                /\ task'[c][p].pc = "done"
                /\ \A q \in PlaceIds \ {p} : task'[c][q] = task[c][q]
                /\ store' # store =>
                        /\ task'[c][p].status = "success"
                        /\ \E d \in DocsOf(store', p) :
                                d.last_updated = task[c][p].stamp]_vars

\* The gather has re-raised the exception of the task for place 1 to the
\* crawl's caller; the task for place 2 has gone on, returned success, and
\* its record is stored.
SiblingIsolationWitness ==
    \E c \in Crawls :
        /\ crawl[c].pc = "raised_task"
        /\ task[c][1].pc = "raised"
        /\ task[c][2].pc = "done"
        /\ task[c][2].status = "success"
        /\ \E d \in DocsOf(store, 2) : d.last_updated = task[c][2].stamp

\* The detail fetch of the task of crawl c for place p has failed: the task was
\* started and holds no detail record.
DetailFetchFailed(c, p) == task[c][p].pc # "none" /\ task[c][p].details = "none"

\* C26: a task whose detail fetch failed has returned the provider-error
\* outcome in its first block, without a classifier call and without a
\* timestamp or a write; it takes no further step and the store is as it was
\* when the crawl collects it; and the summary of the crawl counts it under
\* errors, not under succeeded or skipped.
ProviderErrorOutcome ==
    /\ [](\A c \in Crawls, p \in PlaceIds : DetailFetchFailed(c, p) =>
            /\ task[c][p].pc = "done"
            /\ task[c][p].status = "api_error"
            /\ task[c][p].stamp = None)
    /\ [][\A c \in Crawls :
            /\ \A p \in PlaceIds :
                (DetailFetchFailed(c, p) /\ task'[c][p] # task[c][p]) =>
                    (GatherReturns(c) /\ store' = store)
            /\ \A p \in PlaceIds :
                (task[c][p].pc = "none" /\ task'[c][p].status = "api_error") =>
                    (store' = store /\ clock' = clock)
            /\ GatherReturns(c) =>
                LET failed == {p \in crawl[c].place_ids_to_process :
                                    DetailFetchFailed(c, p)}
                IN  /\ crawl'[c].summary.errors >= Cardinality(failed)
                    /\ crawl'[c].summary.restaurants_added_or_updated
                            + crawl'[c].summary.non_restaurants_skipped
                        <= Cardinality(crawl[c].place_ids_to_process \ failed)]_vars

\* The detail fetch for place 1 has failed and its task has returned the
\* provider error, while the task for place 2 has written its record; the
\* store holds no record of place 1.
ProviderErrorOutcomeWitness ==
    \E c \in Crawls :
        /\ crawl[c].pc = "gather"
        /\ task[c][1].status = "api_error"
        /\ task[c][2].status = "success"
        /\ StoreIds(store) = {2}

\* C27: a task that holds a complete detail record leaves the classifier call
\* either with a positive classification, on to the store write, or with the
\* skipped outcome and nothing written: no failure of the classifier and no
\* malformed output makes the task raise.
ClassifierDegrades ==
    [][\A c \in Crawls, p \in PlaceIds :
        (/\ task[c][p].pc = "llm"
         /\ task[c][p].details = "full"
         /\ task'[c][p] # task[c][p]) =>
            \/ task'[c][p].pc = "db"
            \/ /\ task'[c][p].pc = "done"
               /\ task'[c][p].status = "skipped"
               /\ store' = store]_vars

\* Crawl c sends a nearby-search request in this step.
IssuesRequest(c) == Len(crawl'[c].requests) > Len(crawl[c].requests)

\* The request crawl c sends in this step, as the provider receives it.
RequestIssued(c) == crawl'[c].requests[Len(crawl[c].requests) + 1]

\* C22: the first nearby-search request of a crawl carries location and radius
\* and no token; every later request carries the token that the answer to the
\* request before it returned, and is sent at least the settling delay after
\* that token was received, on the skip path as on the collecting path; no
\* token is sent twice.
TokenProtocol ==
    \A c \in Crawls :
        LET sent == crawl[c].requests
        IN  /\ Len(sent) >= 1 => sent[1].page_token = None
            /\ \A i \in 2..Len(sent) :
                    /\ sent[i].page_token # None
                    /\ sent[i].page_token = sent[i - 1].next_page_token
                    /\ sent[i].waited >= SettleDelay
            /\ \A i \in 1..Len(sent) : \A j \in (i + 1)..Len(sent) :
                    sent[i].page_token # sent[j].page_token

\* A crawl with start_page 2 has requested page 1 on the skip path and, with
\* the token of its answer and after the delay, page 2 on the collecting path.
TokenProtocolWitness ==
    \E c \in Crawls :
        /\ crawl[c].start_page = 2
        /\ Len(crawl[c].requests) = 2
        /\ crawl[c].requests[1].page_token = None
        /\ crawl[c].requests[1].next_page_token # None
        /\ crawl[c].requests[2].page_token = crawl[c].requests[1].next_page_token
        /\ crawl[c].requests[2].waited = SettleDelay
        /\ crawl[c].pages_fetched = 2

\* C23: with max_results > 0, once the accumulated set holds max_results ids
\* the crawl sends no further nearby-search request, even when the last page
\* returned a continuation token.
StopsAtCap ==
    /\ [](\A c \in Crawls :
            (/\ crawl[c].max_results > 0
             /\ Cardinality(crawl[c].all_place_ids) >= crawl[c].max_results) =>
                crawl[c].pc \notin {"fetch", "sleep_skip"})
    /\ [][\A c \in Crawls : IssuesRequest(c) =>
            ~(/\ crawl[c].max_results > 0
              /\ Cardinality(crawl[c].all_place_ids) >= crawl[c].max_results)]_vars

\* Page 1 filled the cap and returned a token; the crawl has gone on to dedup
\* and enrichment with that one request.
StopsAtCapWitness ==
    \E c \in Crawls :
        /\ crawl[c].max_results > 0
        /\ crawl[c].end_page = -1
        /\ Cardinality(crawl[c].all_place_ids) = crawl[c].max_results
        /\ crawl[c].next_page_token # None
        /\ Len(crawl[c].requests) = 1
        /\ crawl[c].pc \in {"exists_query", "gather", "done"}

\* C24: the pages of a crawl are requested in order from page 1, so every
\* page below start_page is requested before anything is collected; such a
\* request follows the delay and token protocol and adds no id; ids are added
\* only by a request for a page with index >= start_page, and only ids of
\* that page's answer.
PageSkipping ==
    /\ [](\A c \in Crawls :
            /\ \A i \in 1..Len(crawl[c].requests) : crawl[c].requests[i].page = i
            /\ crawl[c].all_place_ids # {} =>
                    Len(crawl[c].requests) >= crawl[c].start_page)
    /\ [][\A c \in Crawls :
            /\ (crawl[c].pc # "idle"
                    /\ crawl'[c].all_place_ids # crawl[c].all_place_ids) =>
                    IssuesRequest(c)
            /\ IssuesRequest(c) =>
                /\ crawl[c].current_page < crawl[c].start_page =>
                        /\ crawl'[c].all_place_ids = crawl[c].all_place_ids
                        /\ RequestIssued(c).page_token = crawl[c].next_page_token
                        /\ RequestIssued(c).waited >= SettleDelay
                /\ crawl'[c].all_place_ids # crawl[c].all_place_ids =>
                        /\ RequestIssued(c).page >= crawl[c].start_page
                        /\ (crawl'[c].all_place_ids \ crawl[c].all_place_ids)
                                \subseteq crawl'[c].places_result]_vars

\* A crawl with start_page 2 has skipped page 1 and collected ids from page 2.
PageSkippingWitness ==
    \E c \in Crawls :
        /\ crawl[c].start_page = 2
        /\ Len(crawl[c].requests) = 2
        /\ crawl[c].requests[2].waited = SettleDelay
        /\ crawl[c].all_place_ids # {}
        /\ crawl[c].all_place_ids = crawl[c].places_result

\* C25: with end_page other than -1, no nearby-search request of a crawl that
\* crawl_command started asks for a page with index above end_page.
PageStopping ==
    \A c \in Crawls : crawl[c].end_page # -1 =>
        \A i \in 1..Len(crawl[c].requests) :
            crawl[c].requests[i].page <= crawl[c].end_page

\* An uncapped crawl with end_page 1 got a token with page 1 and has gone on
\* to dedup and enrichment without requesting page 2.
PageStoppingWitness ==
    \E c \in Crawls :
        /\ crawl[c].end_page = 1
        /\ crawl[c].max_results = 0
        /\ crawl[c].next_page_token # None
        /\ crawl[c].current_page = 2
        /\ Len(crawl[c].requests) = 1
        /\ crawl[c].pc \in {"exists_query", "gather", "done"}

\* C31: within one crawl no page is requested twice; while the gather runs,
\* every id to process has exactly one enrichment task, which has sent exactly
\* one detail-fetch request, also when that fetch failed, and no other id has
\* a task; a task that was started is never started again.
NoRetry ==
    /\ [](\A c \in Crawls :
            /\ \A i \in 1..Len(crawl[c].requests) :
                    \A j \in (i + 1)..Len(crawl[c].requests) :
                        crawl[c].requests[i].page # crawl[c].requests[j].page
            /\ \A p \in PlaceIds :
                    /\ task[c][p].fetches <= 1
                    /\ task[c][p].pc # "none" =>
                            /\ p \in crawl[c].place_ids_to_process
                            /\ task[c][p].fetches = 1
                    /\ (crawl[c].pc = "gather"
                            /\ p \in crawl[c].place_ids_to_process) =>
                            task[c][p].pc # "none")
    /\ [][\A c \in Crawls, p \in PlaceIds :
            /\ (task[c][p].pc = "none" /\ task'[c][p].pc # "none") =>
                    (crawl[c].pc # "gather" /\ crawl'[c].pc = "gather")
            /\ (task[c][p].pc # "none" /\ task'[c][p].pc # "none") =>
                    task'[c][p].fetches = task[c][p].fetches]_vars

\* Two pages were requested, both places are processed by one task each; the
\* detail fetch of place 1 has failed and was not repeated, and place 2 has
\* been written.
NoRetryWitness ==
    \E c \in Crawls :
        /\ crawl[c].pc = "gather"
        /\ Len(crawl[c].requests) = 2
        /\ crawl[c].pages_fetched = 2
        /\ crawl[c].place_ids_to_process = {1, 2}
        /\ task[c][1].status = "api_error"
        /\ task[c][1].fetches = 1
        /\ task[c][2].status = "success"
        /\ task[c][2].fetches = 1

\* The record of place p as the runs before this one left it.
SeededDoc(p) == SetFields(FinalDoc(p, DefaultData), [_id |-> p, last_updated |-> 0])

\* C33: the existence query of a crawl that is not forced leaves out of
\* to_process every id that is stored when it runs; for such an id the crawl
\* starts no task and sends no detail fetch, every write of the crawl is for
\* an id to process and changes no other record, and the record of the id
\* stays as it was, last_updated included.
NonForceLeavesExisting ==
    /\ [](\A c \in Crawls :
            (~crawl[c].force_update
                /\ crawl[c].pc \in {"gather", "done", "raised_task"}) =>
                \A p \in crawl[c].all_place_ids \ crawl[c].place_ids_to_process :
                    /\ task[c][p].pc = "none"
                    /\ task[c][p].fetches = 0
                    /\ DocsOf(store, p) = {SeededDoc(p)})
    /\ [][\A c \in Crawls : ~crawl[c].force_update =>
            /\ (crawl[c].pc = "exists_query" /\ crawl'[c].pc \in {"gather", "done"}) =>
                    /\ crawl'[c].place_ids_to_process \cap StoreIds(store) = {}
                    /\ store' = store
            /\ \A p \in PlaceIds : UpsertApplied(c, p) =>
                    /\ p \in crawl[c].place_ids_to_process
                    /\ {d \in store' : d.google_place_id # p}
                            = {d \in store : d.google_place_id # p}]_vars

\* A crawl that is not forced found places 1 and 2, place 1 stored before; it
\* has written place 2 and started nothing for place 1, whose record is as
\* it was.
NonForceLeavesExistingWitness ==
    \E c \in Crawls :
        /\ ~crawl[c].force_update
        /\ crawl[c].pc = "gather"
        /\ crawl[c].all_place_ids = {1, 2}
        /\ crawl[c].place_ids_to_process = {2}
        /\ crawl[c].num_existing = 1
        /\ task[c][1].pc = "none"
        /\ task[c][2].status = "success"
        /\ DocsOf(store, 1) = {SeededDoc(1)}
        /\ \E d \in DocsOf(store, 2) : d.last_updated > 0

\* Crawl c returns its summary without having reached the gather.
EarlyExit(c) == crawl[c].pc \notin {"gather", "done"} /\ crawl'[c].pc = "done"

\* C34: a crawl whose discovery found no id, or (not forced) whose discovered
\* ids are all stored when the existence query answers, never reaches the
\* gather: it returns at once, with no task started, no detail fetch, no timestamp and
\* no write, and its summary has to_process, succeeded, skipped and errors 0,
\* total_found the number of ids found and already_exists the number of them
\* that are stored (0 when none was found).
EarlyExitNoWork ==
    /\ [](\A c \in Crawls :
            /\ crawl[c].pc \in {"exists_query", "gather"} =>
                    crawl[c].all_place_ids # {}
            /\ crawl[c].pc = "gather" => crawl[c].place_ids_to_process # {})
    /\ [][\A c \in Crawls :
            /\ (crawl[c].pc = "exists_query"
                    /\ crawl'[c].pc \notin {"exists_query", "raised_store"}
                    /\ crawl[c].all_place_ids \subseteq StoreIds(store)) =>
                    EarlyExit(c)
            /\ EarlyExit(c) =>
                /\ task' = task
                /\ \A p \in PlaceIds : task[c][p].pc = "none"
                /\ store' = store
                /\ clock' = clock
                /\ \/ crawl'[c].all_place_ids = {}
                   \/ /\ ~crawl[c].force_update
                      /\ crawl'[c].all_place_ids \subseteq StoreIds(store)
                /\ crawl'[c].summary.to_process = 0
                /\ crawl'[c].summary.restaurants_added_or_updated = 0
                /\ crawl'[c].summary.non_restaurants_skipped = 0
                /\ crawl'[c].summary.errors = 0
                /\ crawl'[c].summary.total_found
                        = Cardinality(crawl'[c].all_place_ids)
                /\ crawl'[c].summary.already_exists
                        = Cardinality(crawl'[c].all_place_ids \cap StoreIds(store))]_vars

\* A crawl that is not forced found places 1 and 2, both stored: it has
\* returned 2 found, 2 existing and nothing to process, and the store and the
\* clock are as they were.
EarlyExitNoWorkWitness ==
    \E c \in Crawls :
        /\ crawl[c].pc = "done"
        /\ ~crawl[c].force_update
        /\ crawl[c].summary.total_found = 2
        /\ crawl[c].summary.already_exists = 2
        /\ crawl[c].summary.to_process = 0
        /\ clock = 0
        /\ store = {SeededDoc(1), SeededDoc(2)}

\* crawl_area is inside its pagination loop, at a nearby-search request.
InLoop(c) == crawl[c].pc \in {"sleep_skip", "fetch"}

\* crawl_area has ended: it returned its summary or an exception left it.
Ended(c) == crawl[c].pc \in {"done", "raised_store", "raised_task"}

\* C36: when every call returns and the provider's chain of pages is finite
\* (MaxPages), the pagination loop issues at most one request per page of the
\* chain and ends, whatever start_page, end_page and max_results are, and a
\* crawl that was started ends.
DiscoveryTerminates ==
    /\ [](Len(crawl[1].requests) <= MaxPages)
    /\ InLoop(1) ~> ~InLoop(1)
    /\ (crawl[1].pc # "idle") ~> Ended(1)

\* A crawl over all pages without a cap ended after a request for every page
\* of the provider's chain and after its enrichment.
DiscoveryTerminatesWitness ==
    /\ crawl[1].pc = "done"
    /\ crawl[1].max_results = 0
    /\ crawl[1].end_page = -1
    /\ Len(crawl[1].requests) = MaxPages
    /\ crawl[1].summary.to_process > 0

\* A direct call of add_or_update_restaurant begins in this step.
CallBegins == call.pc # "await" /\ call' # call

\* C30: a call of add_or_update_restaurant with a record that lacks
\* google_place_id raises ValueError in its first block: the store is
\* unchanged, no timestamp is taken, and nothing else in flight is touched;
\* a call with the key, also one that follows a failed call, goes on to its
\* write.
ValidationFails ==
    [][CallBegins =>
        /\ store' = store
        /\ task' = task
        /\ crawl' = crawl
        /\ IF "google_place_id" \in DOMAIN call'.restaurant_data
           THEN /\ call'.pc = "await"
                /\ call'.results = call.results
           ELSE /\ call'.pc = "raised"
                /\ call'.results = Append(call.results, "ValueError")
                /\ clock' = clock]_vars

\* A call without the key has raised and the call after it has stored its
\* record, with the first timestamp taken: the failed call took none.
ValidationFailsWitness ==
    /\ call.results = <<"ValueError", "stored">>
    /\ call.pc = "returned"
    /\ adds = 0
    /\ clock = 1
    /\ \E d \in store : d.last_updated = 1

(***************************************************************************)
(* Claims about is_open_at_time.                                           *)
(***************************************************************************)
\* The weekday and the minute of the day of the query on Shanghai's clock.
QueryWeekday == Weekdays[Localize(dt_arg).weekday + 1]

QueryMinute == Localize(dt_arg).minute

\* C5: for every opening-hours map without an entry for the weekday of the
\* target time, empty or with entries for other weekdays, is_open_at_time
\* reports open.
MissingDayIsOpen ==
    (hPc = "done" /\ QueryWeekday \notin DOMAIN hours_arg) => is_open

\* C6: for every weekday value written as HH:MM-HH:MM with open minute o and
\* close minute c and every target minute t of that weekday, is_open_at_time
\* reports open iff (c < o and (t >= o or t < c)) or (c >= o and o <= t < c):
\* open bound inclusive, close bound exclusive.
IntervalRule ==
    hPc = "done" =>
        \A open \in SampleTimes, close \in SampleTimes, st \in Styles :
            (/\ QueryWeekday \in DOMAIN hours_arg
             /\ hours_arg[QueryWeekday] = FormatRange(open, close, st)) =>
                LET o == Minutes(open)
                    c == Minutes(close)
                    t == QueryMinute
                IN  is_open <=> \/ c < o /\ (t >= o \/ t < c)
                                \/ c >= o /\ o <= t /\ t < c

\* Hours 22:00-02:00 on Monday were found open at 01:00 on a Monday, the query
\* made in UTC.
IntervalRuleWitness ==
    /\ hPc = "done"
    /\ "monday" \in DOMAIN hours_arg
    /\ hours_arg["monday"] = FormatRange(<<22, 0>>, <<2, 0>>, "padded")
    /\ QueryWeekday = "monday"
    /\ QueryMinute = 60
    /\ dt_arg.utcoffset = 0
    /\ is_open

\* The value is_open_at_time looked up for the query's weekday.
QueryDayValue == hours_arg[QueryWeekday]

\* The closed markers and the 24-hour markers as records carry them: "Closed"
\* and "00:00-24:00" as the crawler writes them, and their synonyms.
ClosedValues ==
    {<<"C", "l", "o", "s", "e", "d">>, <<"c", "l", "o", "s", "e", "d">>,
     <<"XIU", "XI">>}

AllDayValues ==
    {<<"0", "0", ":", "0", "0", "-", "2", "4", ":", "0", "0">>,
     <<"O", "p", "e", "n", " ", "2", "4", " ", "h", "o", "u", "r", "s">>,
     <<"2", "4", "XIAO", "SHI", "YING", "YE">>}

\* C28: when the value for the weekday of the target time is a closed marker,
\* is_open_at_time reports closed at every time of that day; when it is a
\* 24-hour marker, it reports open at every time of that day.
MarkersDecide ==
    (hPc = "done" /\ QueryWeekday \in DOMAIN hours_arg) =>
        /\ QueryDayValue \in ClosedValues => ~is_open
        /\ QueryDayValue \in AllDayValues => is_open

\* "Closed" on Monday was found closed at 10:00 on a Monday, although Tuesday
\* has hours.
MarkersDecideWitness ==
    /\ hPc = "done"
    /\ DOMAIN hours_arg = {"monday", "tuesday"}
    /\ hours_arg["monday"] = <<"C", "l", "o", "s", "e", "d">>
    /\ QueryWeekday = "monday"
    /\ QueryMinute = 600
    /\ ~is_open

\* C29: for every value of the target weekday that is present, is no closed
\* marker and no 24-hour marker, and does not parse as HH:MM-HH:MM (the empty
\* string, several ranges, non-numeric parts), is_open_at_time reports open.
MalformedIsOpen ==
    (/\ hPc = "done"
     /\ QueryWeekday \in DOMAIN hours_arg
     /\ QueryDayValue \in MalformedValues) => is_open

\* Every line of weekday_text for the day carries one of the texts, and there
\* is such a line.
Marks(day, texts) ==
    /\ \E i \in 1..Len(weekday_text), l \in DayLabels(day), t \in texts :
            weekday_text[i] = ProviderLine(l, t)
    /\ \A i \in 1..Len(weekday_text) :
            \A l \in DayLabels(day),
               t \in ProviderAllDay \cup ProviderClosed \cup ProviderRanges :
                weekday_text[i] = ProviderLine(l, t) => t \in texts

\* C32: when the provider marks the queried weekday as open 24 hours, in
\* Chinese or English, the record the enricher stores is evaluated open at
\* every time of that day; when the provider marks it closed, in Chinese or
\* English, the stored record is evaluated closed at every time of that day.
NormalizeRoundTrip ==
    hPc = "done" =>
        /\ Marks(QueryWeekday, ProviderAllDay) => is_open
        /\ Marks(QueryWeekday, ProviderClosed) => ~is_open

\* The provider marked Monday open 24 hours in Chinese and Tuesday closed in
\* Chinese, and a query for Tuesday was evaluated closed on the stored record.
NormalizeRoundTripWitness ==
    /\ hPc = "done"
    /\ weekday_text = <<ProviderLine(<<"XING", "QI", "YI">>, <<"2", "4", " ", "XIAO", "SHI", "YING", "YE">>),
                        ProviderLine(<<"XING", "QI", "ER">>, <<"XIU", "XI">>)>>
    /\ hours_arg = MapOf(<<"0", "0", ":", "0", "0", "-", "2", "4", ":", "0", "0">>, <<"C", "l", "o", "s", "e", "d">>)
    /\ QueryWeekday = "tuesday"
    /\ ~is_open

\* Monday's entry is a range from 22:00 to 02:00.
MondayCrossesMidnight ==
    /\ "monday" \in DOMAIN hours_arg
    /\ \E st \in Styles : hours_arg["monday"] = FormatRange(<<22, 0>>, <<2, 0>>, st)

\* C35: only the entry of the target weekday is consulted.  With Monday
\* 22:00-02:00, a Monday query is open from 22:00 on and before 02:00; a
\* Tuesday query is closed at every time when Tuesday is marked closed, and
\* with Tuesday 10:00-22:00 it is open from 10:00 to 22:00 only, so Monday's
\* range never opens the early hours of Tuesday.
WrapAroundOwnDay ==
    (hPc = "done" /\ MondayCrossesMidnight) =>
        /\ QueryWeekday = "monday" =>
                (is_open <=> (QueryMinute >= 1320 \/ QueryMinute < 120))
        /\ (QueryWeekday = "tuesday" /\ "tuesday" \in DOMAIN hours_arg) =>
                /\ hours_arg["tuesday"] \in ClosedValues => ~is_open
                /\ hours_arg["tuesday"] = FormatRange(<<10, 0>>, <<22, 0>>, "padded") =>
                        (is_open <=> (QueryMinute >= 600 /\ QueryMinute < 1320))

\* With Monday 22:00-02:00 and Tuesday closed, a query for Tuesday 01:00 was
\* found closed.
WrapAroundOwnDayWitness ==
    /\ hPc = "done"
    /\ MondayCrossesMidnight
    /\ "tuesday" \in DOMAIN hours_arg
    /\ hours_arg["tuesday"] \in ClosedValues
    /\ QueryWeekday = "tuesday"
    /\ QueryMinute = 60
    /\ ~is_open

(***************************************************************************)
(* Claims about the matching engine.                                       *)
(***************************************************************************)
\* The records among those the cursor yielded that are open at the query time.
OpenSubset ==
    {potential_restaurants[i] : i \in
        {j \in 1..Len(potential_restaurants) :
            IsOpenAtTime(HoursOf(potential_restaurants[j]), query_time)}}

\* C7: find_restaurants returns exactly min(count, |open subset|) records,
\* pairwise distinct, each a member of the open subset of the candidates; the
\* whole open subset when it has at most count members.
SamplingBound ==
    fPc = "found" =>
        LET n == Len(selected_restaurants)
            size == Cardinality(OpenSubset)
        IN  /\ n = IF count < size THEN count ELSE size
            /\ n <= count
            /\ \A i, j \in 1..n :
                 i # j => selected_restaurants[i]._id # selected_restaurants[j]._id
            /\ \A i \in 1..n :
                 \E r \in OpenSubset : selected_restaurants[i] = WithStrId(r)
            /\ size <= count =>
                 \A r \in OpenSubset :
                    \E i \in 1..n : selected_restaurants[i] = WithStrId(r)

\* Two records were drawn from an open subset of three, one candidate being
\* closed at the query time.
SamplingBoundWitness ==
    /\ fPc = "found"
    /\ count = 2
    /\ Len(selected_restaurants) = 2
    /\ Cardinality(OpenSubset) = 3
    /\ Len(potential_restaurants) = 4

\* kw occurs in text, letters in either case.
SubstringIgnoringCase(kw, text) ==
    \E i \in 1..(Len(text) - Len(kw) + 1) :
        \A j \in 1..Len(kw) : LowerChar(kw[j]) = LowerChar(text[i + j - 1])

\* The filter semantics as stated: every present, non-empty group holds.
StatedCandidate(d, fl) ==
    LET categories == IF "cuisine_type" \in DOMAIN d THEN d.cuisine_type ELSE {}
        labels == IF "tags" \in DOMAIN d THEN d.tags ELSE {}
    IN  /\ ("cuisine_type" \in DOMAIN fl /\ fl["cuisine_type"] # <<>>) =>
                \E i \in 1..Len(fl["cuisine_type"]) : fl["cuisine_type"][i] \in categories
        /\ ("price_range" \in DOMAIN fl /\ fl["price_range"] # <<>>) =>
                /\ "price_range" \in DOMAIN d
                /\ \E i \in 1..Len(fl["price_range"]) : fl["price_range"][i] = d.price_range
        /\ ("min_rating" \in DOMAIN fl /\ FloatParses(fl["min_rating"])) =>
                /\ "rating" \in DOMAIN d
                /\ d.rating >= FloatValue(fl["min_rating"])
        /\ ("keywords" \in DOMAIN fl /\ fl["keywords"] # <<>>) =>
                \E i \in 1..Len(fl["keywords"]) :
                    \/ "name" \in DOMAIN d /\ SubstringIgnoringCase(fl["keywords"][i], d.name)
                    \/ fl["keywords"][i] \in labels
                    \/ fl["keywords"][i] \in categories

\* C8: a stored record is a candidate of find iff it satisfies every filter
\* group that is present (categories intersect, price tier among the tiers,
\* rating >= min_rating, some keyword a case-insensitive substring of the name
\* or equal to a tag or a category); absent and empty groups exclude nothing.
FilterSemantics ==
    fPc = "found" =>
        \A d \in store :
            (\E i \in 1..Len(potential_restaurants) : potential_restaurants[i] = d)
                <=> StatedCandidate(d, filters)

\* C9: given a location that resolves to coordinates, the nearby command
\* replies with a result list of records within the radius, not with an error.
NearbyYieldsResults ==
    (fPc = "replied" /\ nearby_reply # "location_error") => nearby_reply = "results"

(***************************************************************************)
(* Claims about location aliases.                                          *)
(***************************************************************************)
\* An add_location_alias call ends in this step.
AliasAdded == alias_call' # alias_call /\ alias_call'.op = "add"

\* The add succeeds whatever other scopes hold the alias: its entry is stored
\* and the entries of the other scopes stay.
AddSucceedsPerScope ==
    AliasAdded =>
        /\ alias_call'.result # "DuplicateKeyError"
        /\ [alias |-> StrLower(alias_call'.alias),
            coordinates |-> alias_call'.coordinates,
            guild_id |-> alias_call'.guild_id] \in location_aliases'
        /\ \A d \in location_aliases :
                d.guild_id # alias_call'.guild_id => d \in location_aliases'

\* The guild's lookup returns the guild's entry for the alias in lower case
\* when there is one and goes on to the global lookup otherwise; the global
\* lookup returns the global entry, or nothing when there is none.
LookupPrefersGuild ==
    /\ (alias_get.pc = "guild_lookup" /\ alias_get' # alias_get) =>
            LET own == AliasMatches(location_aliases, StrLower(alias_get.alias),
                                    alias_get.guild_id)
            IN  IF own # {}
                THEN alias_get'.pc = "returned" /\ alias_get'.result \in own
                ELSE alias_get'.pc = "global_lookup"
    /\ (alias_get.pc = "global_lookup" /\ alias_get' # alias_get) =>
            LET global == AliasMatches(location_aliases, StrLower(alias_get.alias),
                                       None)
            IN  /\ alias_get'.pc = "returned"
                /\ IF global # {} THEN alias_get'.result \in global
                   ELSE alias_get'.result = NoAlias

\* The lookups of get_location_alias answer as LookupPrefersGuild says.
LookupHolds == [][LookupPrefersGuild]_vars

\* C37: an alias is added independently in each guild and in the global
\* scope, the entries coexist, and a lookup returns the guild's own entry
\* when it exists and the global entry otherwise, whatever the case of the
\* alias.
AliasScopesIndependent == [][AddSucceedsPerScope /\ LookupPrefersGuild]_vars

\* The same alias is stored in two scopes.
AliasInTwoScopes ==
    \E d \in location_aliases, e \in location_aliases :
        d.alias = e.alias /\ d.guild_id # e.guild_id

====
